---- MODULE Spec2Model ----
(***************************************************************************)
(* A model of the flare-defai agent: the transaction risk validator        *)
(* (blockchain/transaction_validator.py), the contract risk analyzer       *)
(* (blockchain/contract_risk_analyzer.py), the transaction builder         *)
(* (blockchain/defi.py) and the provider (blockchain/flare.py).            *)
(*                                                                         *)
(* Conventions.                                                            *)
(*  - A Python dict is a function; a missing key is a key outside DOMAIN.  *)
(*  - An address string is a record [id, cs]: id names the 20 bytes, cs    *)
(*    the letter case of the spelling ("lower" or "checksum").  An id      *)
(*    whose hex digits are all decimal has one spelling only.              *)
(*  - Amounts of wei are counted in units of 10^16 wei, so that one ether  *)
(*    (10^18 wei) is WeiPerEther = 100 units; token amounts are decimal    *)
(*    numbers with one fractional digit, counted in tenths.                *)
(***************************************************************************)
EXTENDS Integers, Sequences, FiniteSets, TLC

VARIABLES
    cmp,                   \* TransactionRisk: the operands and results of the last comparison
    report,                \* a ContractRiskReport under add_finding
    known_safe_contracts,  \* SecureTransactionValidator.known_safe_contracts
    scam_addresses,        \* SecureTransactionValidator.scam_addresses
    v_call,                \* the validate_transaction call in progress / just returned
    contract_cache,        \* ContractRiskAnalyzer._contract_cache
    chain_code,            \* on-chain bytecode per address id
    a_call,                \* the analyze_contract call just returned
    address,               \* FlareProvider.address
    tx_queue,              \* FlareProvider.tx_queue
    chain_nonce,           \* on-chain transaction count of the sender
    chain_allowance,       \* on-chain ERC20 allowance of the router for the source token
    b_call,                \* the builder call just returned
    q_call,                \* the call of a FlareProvider queue method just returned
    next_msg,              \* how many queue entries direct callers have created, plus one
    handed,                \* the entries given to sign_and_send_transaction, in order
    attestation_requested, \* Vtpm.attestation_requested
    c_call                 \* the chat request just answered

riskVars == << cmp >>
reportVars == << report >>
validatorVars == << known_safe_contracts, scam_addresses, v_call >>
analyzerVars == << contract_cache, chain_code, a_call >>
builderVars == << address, tx_queue, chain_nonce, chain_allowance, b_call >>
chatVars == << q_call, next_msg, handed, attestation_requested, c_call >>

vars == << riskVars, reportVars, validatorVars, analyzerVars, builderVars, chatVars >>

\* Python's None.
IsNone(x) == "kind" \in DOMAIN x /\ x.kind = "none"

None == [kind |-> "none"]

Get(d, k, default) == IF k \in DOMAIN d THEN d[k] ELSE default

(***************************************************************************)
(* Risk levels.  TransactionRisk (transaction_validator.py) orders its     *)
(* members through _risk_value; RiskLevel (contract_risk_analyzer.py) has  *)
(* the same members and no ordering of its own.                            *)
(***************************************************************************)
Levels == {"SAFE", "LOW", "MEDIUM", "HIGH", "CRITICAL"}

\* The order the specification gives: SAFE < LOW < MEDIUM < HIGH < CRITICAL.
OrderSeq == << "SAFE", "LOW", "MEDIUM", "HIGH", "CRITICAL" >>

Position(l) == CHOOSE i \in 1..Len(OrderSeq) : OrderSeq[i] = l

\* A mutation of _risk_value: HIGH and MEDIUM swapped.
RiskValueSwapped(l) ==
    CASE l = "SAFE" -> 0
      [] l = "LOW" -> 1
      [] l = "MEDIUM" -> 3
      [] l = "HIGH" -> 2
      [] l = "CRITICAL" -> 4
      [] OTHER -> -1

\* TransactionRisk._risk_value
RiskValue(l) ==
    CASE l = "SAFE" -> 0
      [] l = "LOW" -> 1
      [] l = "MEDIUM" -> 2
      [] l = "HIGH" -> 3
      [] l = "CRITICAL" -> 4
      [] OTHER -> -1

\* The enum member's value string, as a sequence of letters (a = 1 .. z = 26).
EnumValue(l) ==
    CASE l = "SAFE" -> << 19, 1, 6, 5 >>
      [] l = "LOW" -> << 12, 15, 23 >>
      [] l = "MEDIUM" -> << 13, 5, 4, 9, 21, 13 >>
      [] l = "HIGH" -> << 8, 9, 7, 8 >>
      [] l = "CRITICAL" -> << 3, 18, 9, 20, 9, 3, 1, 12 >>

\* TransactionRisk.__lt__
RiskLt(a, b) == RiskValue(a) < RiskValue(b)

\* TransactionRisk.__gt__
RiskGt(a, b) == RiskValue(a) > RiskValue(b)

\* TransactionRisk.__eq__
RiskEq(a, b) == EnumValue(a) = EnumValue(b)

\* TransactionRisk.__le__
RiskLe(a, b) == RiskLt(a, b) \/ RiskEq(a, b)

\* TransactionRisk.__ge__
RiskGe(a, b) == RiskGt(a, b) \/ RiskEq(a, b)

\* Python's max(a, b): the first operand unless the second is greater (__gt__).
RiskMax(a, b) == IF RiskGt(b, a) THEN b ELSE a

\* Everything the comparison operators say about a triple of levels.
Compare(a, b, c) ==
    [kind |-> "compared", a |-> a, b |-> b, c |-> c,
     lt |-> RiskLt(a, b), gt |-> RiskGt(a, b), eq |-> RiskEq(a, b),
     le |-> RiskLe(a, b), ge |-> RiskGe(a, b),
     max |-> RiskMax(a, b),
     lt_bc |-> RiskLt(b, c), lt_ac |-> RiskLt(a, c),
     max3 |-> RiskMax(RiskMax(a, b), c)]

\* One evaluation of the operators on operands drawn from the enumeration.
CompareRisk ==
    /\ \E a \in Levels, b \in Levels, c \in Levels : cmp' = Compare(a, b, c)
    /\ UNCHANGED << chatVars, reportVars, validatorVars, analyzerVars, builderVars >>

(***************************************************************************)
(* ContractRiskReport (contract_risk_analyzer.py).                         *)
(***************************************************************************)
MaxFindings == 3

RECURSIVE StrGt(_, _)
\* Python's str.__gt__: lexicographic order of the characters.
StrGt(s, t) ==
    IF s = << >> THEN FALSE
    ELSE IF t = << >> THEN TRUE
    ELSE IF Head(s) # Head(t) THEN Head(s) > Head(t)
    ELSE StrGt(Tail(s), Tail(t))

\* RiskFinding(category, level, title, ...)
RiskFinding(level, title) == [level |-> level, title |-> title]

\* A summary text: its fixed wording and the counts interpolated into it.
Summary(head, counts) == [head |-> head, counts |-> counts]

\* ContractRiskReport(contract_address, chain_id, risk_level)
NewReport(contract_address, level) ==
    [kind |-> "report", contract_address |-> contract_address,
     risk_level |-> level, findings |-> << >>,
     is_verified |-> FALSE, is_trusted |-> FALSE, summary |-> Summary("", << >>)]

\* ContractRiskReport.add_finding
AddFinding(rep, finding) ==
    [rep EXCEPT !.findings = Append(rep.findings, finding),
                !.risk_level = IF StrGt(EnumValue(finding.level), EnumValue(rep.risk_level))
                               THEN finding.level
                               ELSE rep.risk_level]

\* ContractRiskReport.get_findings_by_level
FindingsByLevel(rep, level) ==
    SelectSeq(rep.findings, LAMBDA f : f.level = level)

\* A caller constructs a report with some starting level.
ConstructReport ==
    /\ \E l \in Levels : report' = NewReport([id |-> "token", cs |-> "checksum"], l)
    /\ UNCHANGED << chatVars, riskVars, validatorVars, analyzerVars, builderVars >>

\* A caller adds a finding of some level to the report.
ReportAddFinding ==
    /\ report.kind = "report"
    /\ Len(report.findings) < MaxFindings
    /\ \E l \in Levels : report' = AddFinding(report, RiskFinding(l, "finding"))
    /\ UNCHANGED << chatVars, riskVars, validatorVars, analyzerVars, builderVars >>

(***************************************************************************)
(* Address strings.                                                        *)
(***************************************************************************)
\* Ids whose 40 hex digits are all decimal digits ("0x1111...1111", the FLR placeholder).
DigitOnly == {"flr"}

\* Strings that are not 20-byte hex addresses: "bad" is any malformed string,
\* "wflr41" is the 41-character literal "0x1d80c49bbcd1c0911346656b529df9e5c2f783d"
\* of transaction_validator.py (one hex digit short of the WFLR address).
NotAddresses == {"bad", "wflr41", ""}

\* Lower-cased strings that start with the 41-character literal: the literal
\* itself and "wflr41x", an address made of the literal and one more hex digit.
StartsWithWflr41 == {"wflr41", "wflr41x"}

Addr(id, cs) == [id |-> id, cs |-> IF id \in DigitOnly \cup NotAddresses THEN "lower" ELSE cs]

EmptyStr == Addr("", "lower")

\* str.lower()
Lower(a) == [id |-> a.id, cs |-> "lower"]

\* Web3.is_address
IsAddress(a) == a.id \notin NotAddresses

\* Web3.to_checksum_address (defined on addresses only)
ToChecksum(a) == Addr(a.id, "checksum")

(***************************************************************************)
(* Amounts.                                                                *)
(***************************************************************************)
\* 10^18 wei in units of 10^16 wei.
WeiPerEther == 100

\* Web3.to_wei(amount, "ether") for an amount given in tenths of a token.
ToWei(tenths) == (tenths * WeiPerEther) \div 10

(***************************************************************************)
(* SecureTransactionValidator (transaction_validator.py).                  *)
(***************************************************************************)
HighGasLimit == 10000000
LargeDataLen == 1000000
HighValueEther == 1000
DefaultGasLimit == 21000
DefaultScore == 50
EncodedCallLen == 266

\* SecureTransactionValidator.__init__: the known-safe set after construction.
InitialKnownSafe ==
    { Lower(Addr(id, "checksum")) :
        id \in {"flr", "wflr", "usdc", "v2factory", "v2router", "v3router",
                "v3factory", "universal"} }

MissingFieldWarning(f) ==
    CASE f = "to" -> "Missing required field: to"
      [] f = "value" -> "Missing required field: value"
      [] f = "gas" -> "Missing required field: gas"

Warn(cond, text) == IF cond THEN << text >> ELSE << >>

\* _perform_basic_validation with the list of required fields as a parameter.
BasicValidationWith(required_fields, tx, sender, ksc) ==
    LET missing == SelectSeq(required_fields, LAMBDA f : f \notin DOMAIN tx)
        badTo == "to" \in DOMAIN tx /\ tx.to # EmptyStr /\ ~IsAddress(tx.to)
        badFrom == "from" \in DOMAIN tx /\ tx.from # EmptyStr /\ tx.from # sender
        highGas == Get(tx, "gas", 0) > HighGasLimit
        to_address == Lower(Get(tx, "to", EmptyStr))
    IN  [is_valid |-> missing = << >> /\ ~badTo /\ ~badFrom,
         warnings |-> [i \in 1..Len(missing) |-> MissingFieldWarning(missing[i])]
                      \o Warn(badTo, "Invalid recipient address")
                      \o Warn(badFrom, "Transaction sender doesn't match authenticated user")
                      \o Warn(highGas, "Unusually high gas limit"),
         known_safe |-> IF to_address.id \in StartsWithWflr41
                        THEN ksc \cup {to_address}
                        ELSE ksc]

\* A mutation of _perform_basic_validation: "gas" is not required.
PerformBasicValidationGasOptional(tx, sender, ksc) ==
    BasicValidationWith(<< "to", "value" >>, tx, sender, ksc)

\* SecureTransactionValidator._perform_basic_validation
PerformBasicValidation(tx, sender, ksc) ==
    BasicValidationWith(<< "to", "value", "gas" >>, tx, sender, ksc)

\* len(tx["data"]): the data field is a record; raw data carries its length,
\* an encoded contract call (a record naming the function called) is short.
DataLen(data) == IF "len" \in DOMAIN data THEN data.len ELSE EncodedCallLen

\* A mutation of the scam test: no recipient matches.
ScamHitNever(tx, scam) == FALSE

\* The scam test of _perform_security_validation: the recipient, as spelled.
ScamHit(tx, scam) == "to" \in DOMAIN tx /\ tx.to \in scam

\* SecureTransactionValidator._perform_security_validation
PerformSecurityValidation(tx, sender, scam) ==
    LET scamHit == ScamHit(tx, scam)
        largeData == "data" \in DOMAIN tx /\ DataLen(tx.data) > LargeDataLen
        highValue == Get(tx, "value", 0) > ToWei(HighValueEther * 10)
    IN  [is_valid |-> ~scamHit,
         warnings |-> Warn(scamHit, "Recipient is a known scam address")
                      \o Warn(largeData, "Unusually large data field")
                      \o Warn(highValue, "Unusually high transaction value")]

\* _simulate_transaction with the fee's part in the affordability test as a
\* parameter.  rpc holds the node's answers: raises (some lookup raised),
\* balance, gas_price, code_len.
SimulateWith(fee_counts, tx, sender, rpc, ksc) ==
    IF rpc.raises
    THEN [simulation_successful |-> FALSE, error |-> "rpc error"]
    ELSE LET tx_value == Get(tx, "value", 0)
             gas_price == Get(tx, "gasPrice", rpc.gas_price)
             gas_limit == Get(tx, "gas", DefaultGasLimit)
             max_fee == gas_price * gas_limit
         IN  [can_afford |-> rpc.balance >= tx_value + (IF fee_counts THEN max_fee ELSE 0),
              estimated_gas |-> gas_limit,
              is_contract_interaction |-> "to" \in DOMAIN tx /\ tx.to # EmptyStr /\ rpc.code_len > 0,
              contract_verification |->
                  IF "to" \in DOMAIN tx /\ tx.to # EmptyStr
                  THEN [kind |-> "dict", is_verified |-> tx.to \in ksc]
                  ELSE None,
              simulation_successful |-> TRUE]

\* A mutation of _simulate_transaction: the fee is left out of the test.
SimulateTransactionNoFee(tx, sender, rpc, ksc) == SimulateWith(FALSE, tx, sender, rpc, ksc)

\* SecureTransactionValidator._simulate_transaction
SimulateTransaction(tx, sender, rpc, ksc) == SimulateWith(TRUE, tx, sender, rpc, ksc)

\* SecureTransactionValidator._perform_ai_analysis.  ai is the provider's
\* reply: kind "raise" (the call raised), "nojson" (no braces in the text),
\* "badjson" (braces that do not parse) or "json" (the parsed object, ai.json).
PerformAiAnalysis(tx, sender, sim, ai) ==
    CASE ai.kind = "raise" ->
            [security_score |-> DefaultScore, risk_assessment |-> "AI analysis encountered an error:"]
      [] ai.kind = "nojson" ->
            [security_score |-> DefaultScore, risk_assessment |-> "AI couldn't provide structured analysis."]
      [] ai.kind = "badjson" ->
            [security_score |-> DefaultScore, risk_assessment |-> "AI provided unstructured response."]
      [] ai.kind = "json" -> ai.json

\* A mutation of the last adjustment of the merge: SAFE is kept.
UnverifiedFloorNone(unverified, level) == level

\* The last adjustment of the merge: an unverified contract is never SAFE.
UnverifiedFloor(unverified, level) ==
    IF unverified /\ RiskEq(level, "SAFE") THEN "LOW" ELSE level

\* The AI's JSON object may carry a security_score that is no number (a JSON
\* string or null); it is written here under the key security_score_text.
\* Comparing it with a number raises TypeError (line 562).
ScoreRaises(ai_analysis) ==
    /\ "security_score_text" \in DOMAIN ai_analysis
    /\ Get(ai_analysis, "risk_assessment", "") # "AI analysis encountered an error:"

\* A mutation of the AI stage: a score below 40 asks for MEDIUM only.
AiStageLenient(level, ai_analysis) ==
    LET security_score == Get(ai_analysis, "security_score", DefaultScore)
    IN  IF Get(ai_analysis, "risk_assessment", "") = "AI analysis encountered an error:" THEN level
        ELSE IF security_score < 20 THEN "CRITICAL"
        ELSE IF security_score < 60 THEN RiskMax(level, "MEDIUM")
        ELSE IF security_score < 80 THEN RiskMax(level, "LOW")
        ELSE IF RiskEq(level, "LOW") THEN "SAFE"
        ELSE level

\* The AI stage of the merge (lines 554-580).  The error fallback of
\* _perform_ai_analysis is recognised by its risk_assessment text.
AiStage(level, ai_analysis) ==
    LET security_score == Get(ai_analysis, "security_score", DefaultScore)
        ai_error == Get(ai_analysis, "risk_assessment", "") = "AI analysis encountered an error:"
    IN  IF ai_error THEN level
        ELSE IF security_score < 20 THEN "CRITICAL"
        ELSE IF security_score < 40 THEN RiskMax(level, "HIGH")
        ELSE IF security_score < 60 THEN RiskMax(level, "MEDIUM")
        ELSE IF security_score < 80 THEN RiskMax(level, "LOW")
        ELSE IF RiskEq(level, "LOW") THEN "SAFE"
        ELSE level

\* A mutation of the warning stage: three warnings ask for HIGH.
WarningStageStrict(n) ==
    IF n > 5 THEN "CRITICAL"
    ELSE IF n > 2 THEN "HIGH"
    ELSE IF n > 1 THEN "MEDIUM"
    ELSE "LOW"

\* The warning stage of the merge (lines 535-544).
WarningStage(n) ==
    IF n > 5 THEN "CRITICAL"
    ELSE IF n > 3 THEN "HIGH"
    ELSE IF n > 1 THEN "MEDIUM"
    ELSE "LOW"

\* The merge of _calculate_risk_level after the allow-list test (lines 535-591),
\* with the level reached after each stage.
MergeStages(sim, ai_analysis, warnings, known_safe_contract) ==
    LET n == Len(warnings)
        afterWarnings == WarningStage(n)
        afterSimulation ==
            IF ~Get(sim, "simulation_successful", FALSE) THEN "HIGH"
            ELSE IF ~Get(sim, "can_afford", TRUE) THEN "HIGH"
            ELSE afterWarnings
        afterAi == AiStage(afterSimulation, ai_analysis)
        unverified ==
            /\ Get(sim, "is_contract_interaction", FALSE)
            /\ ~known_safe_contract
            /\ ~Get(Get(sim, "contract_verification", [kind |-> "dict"]), "is_verified", FALSE)
        final == UnverifiedFloor(unverified, afterAi)
    IN  [afterWarnings |-> afterWarnings, afterSimulation |-> afterSimulation,
         afterAi |-> afterAi, final |-> final]

\* A mutation of the allow-list override: the override is dropped.
CalculateRiskLevelNoOverride(tx, sender, sim, ai_analysis, warnings, ksc) ==
    [level |-> MergeStages(sim, ai_analysis, warnings, FALSE).final,
     raised |-> ScoreRaises(ai_analysis),
     known_safe |-> ksc \cup {Addr("wflr41", "lower"), Addr("v3router", "lower")}]

\* SecureTransactionValidator._calculate_risk_level
CalculateRiskLevel(tx, sender, sim, ai_analysis, warnings, ksc) ==
    LET wflr_contract == Addr("wflr41", "lower")
        router_contract == Addr("v3router", "lower")
        ksc2 == ksc \cup {wflr_contract, router_contract}
        to_address == IF "to" \in DOMAIN tx THEN Lower(tx.to) ELSE EmptyStr
        known_safe_contract ==
            \/ to_address \in ksc2
            \/ to_address = wflr_contract
            \/ to_address = router_contract
    IN  [level |-> IF known_safe_contract
                   THEN "LOW"
                   ELSE MergeStages(sim, ai_analysis, warnings, known_safe_contract).final,
         raised |-> ~known_safe_contract /\ ScoreRaises(ai_analysis),
         known_safe |-> ksc2]

\* SecureTransactionValidator.validate_transaction: the result returned (or
\* raised: the merge raised and no result is returned), the known-safe set left
\* behind and the external calls issued, in order.
ValidateTransaction(tx, sender, rpc, ai, ksc, scam) ==
    LET basic == PerformBasicValidation(tx, sender, ksc)
        security == PerformSecurityValidation(tx, sender, scam)
        warnings == basic.warnings \o security.warnings
        sim == SimulateTransaction(tx, sender, rpc, basic.known_safe)
        ai_analysis == PerformAiAnalysis(tx, sender, sim, ai)
        risk == CalculateRiskLevel(tx, sender, sim, ai_analysis, warnings, basic.known_safe)
    IN  IF ~basic.is_valid
        THEN [result |-> [is_valid |-> FALSE, risk_level |-> "CRITICAL",
                          warnings |-> basic.warnings,
                          simulation_result |-> None, ai_analysis |-> None],
              raised |-> FALSE,
              known_safe |-> basic.known_safe,
              calls |-> << >>]
        ELSE IF ~security.is_valid
        THEN [result |-> [is_valid |-> FALSE, risk_level |-> "HIGH",
                          warnings |-> security.warnings,
                          simulation_result |-> None, ai_analysis |-> None],
              raised |-> FALSE,
              known_safe |-> basic.known_safe,
              calls |-> << >>]
        ELSE [result |-> [is_valid |-> ~RiskEq(risk.level, "CRITICAL"),
                          risk_level |-> risk.level,
                          warnings |-> warnings,
                          simulation_result |-> sim, ai_analysis |-> ai_analysis],
              raised |-> risk.raised,
              known_safe |-> risk.known_safe,
              calls |-> << "rpc", "ai" >>]

(***************************************************************************)
(* The inputs of validate_transaction the model draws.                     *)
(***************************************************************************)
MaxGasPrice == 1
BigBalance == 2000000000
CodeLen == 24

Sender == Addr("user", "checksum")
OtherSender == Addr("other", "checksum")

\* A dict with key k bound to one value of S, or without the key.
Opt(k, S) == { << >> } \cup { k :> v : v \in S }

TxTargets ==
    { Addr("wflr", "lower"), Addr("wflr", "checksum"), Addr("flr", "lower"),
      Addr("v3router", "checksum"), Addr("wflr41x", "lower"),
      Addr("eoa", "checksum"), Addr("bad", "lower"), Addr("wflr41", "lower"),
      EmptyStr }

Txs ==
    { t @@ v @@ g @@ gp @@ f @@ d :
        t \in Opt("to", TxTargets),
        v \in Opt("value", {0, ToWei(HighValueEther * 10) + 1}),
        g \in Opt("gas", {DefaultGasLimit, HighGasLimit + 1}),
        gp \in Opt("gasPrice", {0}),
        f \in Opt("from", {Sender, OtherSender}),
        d \in Opt("data", {[fn |-> "raw", len |-> LargeDataLen + 1]}) }

RpcAnswers ==
    { [raises |-> TRUE, balance |-> 0, gas_price |-> 0, code_len |-> 0] }
    \cup [raises : {FALSE}, balance : {0, BigBalance},
          gas_price : {MaxGasPrice}, code_len : {0, CodeLen}]

Scores == {5, 19, 20, 39, 40, 59, 60, 79, 80, 100}

AiReplies ==
    { [kind |-> k, json |-> << >>] : k \in {"raise", "nojson", "badjson"} }
    \cup { [kind |-> "json", json |-> j @@ [risk_assessment |-> "text"]] :
             j \in Opt("security_score", Scores) }
    \cup { [kind |-> "json", json |-> [security_score_text |-> "85",
                                       risk_assessment |-> "text"]],
           [kind |-> "json", json |-> [security_score |-> 5,
                                       risk_assessment |-> "AI analysis encountered an error:"]] }

\* Whether validate_transaction consults the node and the AI provider for tx.
ReachesSimulation(tx, sender, ksc, scam) ==
    /\ PerformBasicValidation(tx, sender, ksc).is_valid
    /\ PerformSecurityValidation(tx, sender, scam).is_valid

NoRpc == [raises |-> FALSE, balance |-> 0, gas_price |-> 0, code_len |-> 0]
NoAi == [kind |-> "nojson", json |-> << >>]

\* One call of validate_transaction, run to its return.
Validate ==
    /\ v_call.kind = "none"
    /\ \E tx \in Txs :
         \E rpc \in IF ReachesSimulation(tx, Sender, known_safe_contracts, scam_addresses)
                    THEN RpcAnswers ELSE {NoRpc},
            ai \in IF ReachesSimulation(tx, Sender, known_safe_contracts, scam_addresses)
                   THEN AiReplies ELSE {NoAi} :
           LET out == ValidateTransaction(tx, Sender, rpc, ai,
                                          known_safe_contracts, scam_addresses)
           IN  /\ v_call' = [kind |-> IF out.raised THEN "raised" ELSE "returned",
                             tx |-> tx, sender |-> Sender,
                             rpc |-> rpc, ai |-> ai,
                             known_safe_before |-> known_safe_contracts,
                             calls |-> out.calls, result |-> out.result]
               /\ known_safe_contracts' = out.known_safe
    /\ UNCHANGED << chatVars, riskVars, reportVars, scam_addresses, analyzerVars, builderVars >>

\* The set of scam addresses is loaded ("would typically come from a database
\* or API"): once, before any transaction is validated against it.
ScamLists == {{Addr("eoa", "checksum")}, {Addr("eoa", "lower"), Addr("wflr", "checksum")}}

LoadScamAddresses ==
    /\ v_call.kind = "none"
    /\ scam_addresses = {}
    /\ scam_addresses' \in ScamLists
    /\ UNCHANGED << chatVars, riskVars, reportVars, known_safe_contracts, v_call,
                    analyzerVars, builderVars >>

\* Inputs of a direct call of _calculate_risk_level.
MaxWarnings == 6
WarningLists == { [i \in 1..n |-> "warning"] : n \in 0..MaxWarnings }
MergeTxs == { [to |-> t, value |-> 0, gas |-> DefaultGasLimit, from |-> Sender] : t \in {Addr("eoa", "checksum"), Addr("wflr", "lower")} }
MergeSims == { SimulateTransaction(tx, Sender, rpc, InitialKnownSafe) : tx \in MergeTxs, rpc \in RpcAnswers }
MergeAnalyses == { PerformAiAnalysis(tx, Sender, sim, ai) : tx \in MergeTxs, sim \in MergeSims, ai \in AiReplies }

\* One call of _calculate_risk_level, run to its return, with the level each
\* stage of the merge reached.
Merge ==
    /\ v_call.kind = "none"
    /\ \E tx \in MergeTxs, warnings \in WarningLists, sim \in MergeSims, ai_analysis \in MergeAnalyses :
           LET risk == CalculateRiskLevel(tx, Sender, sim, ai_analysis, warnings, known_safe_contracts)
               allow_listed == Lower(tx.to) \in known_safe_contracts
           IN  /\ v_call' = [kind |-> IF risk.raised THEN "raised" ELSE "merged",
                             tx |-> tx, sender |-> Sender, warnings |-> warnings,
                             simulation_result |-> sim, ai_analysis |-> ai_analysis,
                             known_safe_before |-> known_safe_contracts,
                             allow_listed |-> allow_listed,
                             stages |-> MergeStages(sim, ai_analysis, warnings, allow_listed),
                             level |-> risk.level]
               /\ known_safe_contracts' = risk.known_safe
    /\ UNCHANGED << chatVars, riskVars, reportVars, scam_addresses, analyzerVars, builderVars >>

\* The caller takes the result; nothing of it is kept in the validator.
ValidateReturn ==
    /\ v_call.kind # "none"
    /\ v_call' = None
    /\ UNCHANGED << chatVars, riskVars, reportVars, known_safe_contracts, scam_addresses,
                    analyzerVars, builderVars >>

(***************************************************************************)
(* FlareProvider (flare.py) and DeFiService (defi.py): building            *)
(* transactions.  node holds the node's answers: nonce (the sender's       *)
(* transaction count), gas_price, max_priority_fee, chain_id, timestamp.   *)
(***************************************************************************)
SendGas == 21000
ApproveGas == 100000
WrapGas == 200000
V2SwapGas == 300000
V3SwapGas == 1000000
DefaultFeeTier == 3000
DefaultDeadline == 1200
\* DEFAULT_SLIPPAGE = Decimal("0.005"), in thousandths.
SlippageMilli == 5

Err(type) == [kind |-> "error", error |-> type]

\* create_send_flr_tx with the unit of the conversion and the normalisation of
\* the recipient as parameters.
SendFlrTxWith(unit_per_token, checksum_to, to_address, amount, account, node) ==
    IF IsNone(account) THEN Err("ValueError")
    ELSE IF ~IsAddress(to_address) THEN Err("ValueError")
    ELSE IF amount < 0 THEN Err("ValueError")
    ELSE [kind |-> "tx",
          tx |-> [from |-> account,
                  nonce |-> node.nonce,
                  to |-> IF checksum_to THEN ToChecksum(to_address) ELSE to_address,
                  value |-> (amount * unit_per_token) \div 10,
                  gas |-> SendGas,
                  maxFeePerGas |-> node.gas_price,
                  maxPriorityFeePerGas |-> node.max_priority_fee,
                  chainId |-> node.chain_id,
                  type |-> 2]]

\* A mutation of create_send_flr_tx: the recipient is used as given.
CreateSendFlrTxRawTo(to_address, amount, account, node) ==
    SendFlrTxWith(WeiPerEther, FALSE, to_address, amount, account, node)

\* FlareProvider.create_send_flr_tx
CreateSendFlrTx(to_address, amount, account, node) ==
    SendFlrTxWith(WeiPerEther, TRUE, to_address, amount, account, node)

\* TOKEN_ADDRESSES
TokenAddresses ==
    [FLR |-> Addr("flr", "lower"),
     WFLR |-> Addr("wflr", "checksum"),
     USDC |-> Addr("usdc", "checksum")]

V2RouterAddress == Addr("v2router", "checksum")
V3RouterAddress == Addr("v3router", "checksum")

\* str.upper() on the token symbols the model draws.
Upper(sym) ==
    CASE sym = "flr" -> "FLR"
      [] sym = "usdc" -> "USDC"
      [] OTHER -> sym

\* self.token_addresses.get(symbol)
TokenAddress(sym) == Get(TokenAddresses, sym, EmptyStr)

\* DeFiService._get_eip1559_tx_params
Eip1559TxParams(node) ==
    [maxFeePerGas |-> node.gas_price,
     maxPriorityFeePerGas |-> node.max_priority_fee,
     chainId |-> node.chain_id,
     type |-> 2]

\* DeFiService._approve_token_if_needed: the approval transaction, or None.
ApproveTokenIfNeeded(token_address, spender, amount, sender, node) ==
    IF Lower(token_address) = Lower(TokenAddresses.FLR)
    THEN None
    ELSE [kind |-> "tx",
          tx |-> [from |-> sender,
                  to |-> token_address,
                  gas |-> ApproveGas,
                  nonce |-> node.nonce,
                  data |-> [fn |-> "approve", spender |-> spender, amount |-> amount, len |-> 138]]
                 @@ Eip1559TxParams(node)]

\* int(amount_in_wei * (1 - slippage)), in thousandths of the model's wei unit.
AmountOutMin(amount_in_wei, slippage_milli) == amount_in_wei * (1000 - slippage_milli)

\* DeFiService.create_v2_swap_tx: << swap_tx, approval_tx >> or an error.
CreateV2SwapTx(from_token, to_token, amount, sender, slippage_milli, node) ==
    LET from_token_address == TokenAddress(Upper(from_token))
        to_token_address == TokenAddress(Upper(to_token))
        is_exact_eth_for_tokens == Upper(from_token) = "FLR"
        is_exact_tokens_for_eth == Upper(to_token) = "FLR"
        amount_in_wei == ToWei(amount)
        amount_out_min == AmountOutMin(amount_in_wei, slippage_milli)
        deadline == node.timestamp + DefaultDeadline
        data ==
            IF is_exact_eth_for_tokens
            THEN [fn |-> "swapExactETHForTokens", amountOutMin |-> amount_out_min,
                  path |-> << TokenAddresses.WFLR, to_token_address >>,
                  to |-> sender, deadline |-> deadline, len |-> 458]
            ELSE IF is_exact_tokens_for_eth
            THEN [fn |-> "swapExactTokensForETH", amountIn |-> amount_in_wei,
                  amountOutMin |-> amount_out_min,
                  path |-> << from_token_address, TokenAddresses.WFLR >>,
                  to |-> sender, deadline |-> deadline, len |-> 522]
            ELSE [fn |-> "swapExactTokensForTokens", amountIn |-> amount_in_wei,
                  amountOutMin |-> amount_out_min,
                  path |-> << from_token_address, to_token_address >>,
                  to |-> sender, deadline |-> deadline, len |-> 522]
        swap_tx ==
            [from |-> sender, to |-> V2RouterAddress, gas |-> V2SwapGas,
             nonce |-> node.nonce,
             value |-> IF is_exact_eth_for_tokens THEN amount_in_wei ELSE 0,
             data |-> data] @@ Eip1559TxParams(node)
        approval_tx ==
            IF is_exact_eth_for_tokens THEN None
            ELSE ApproveTokenIfNeeded(from_token_address, V2RouterAddress,
                                      amount_in_wei, sender, node)
    IN  IF from_token_address = EmptyStr \/ to_token_address = EmptyStr
        THEN Err("ValueError")
        ELSE [kind |-> "pair", swap_tx |-> swap_tx, approval_tx |-> approval_tx]

\* create_v3_swap_tx with the nonce step between the transactions as a parameter.
V3SwapTxWith(step, from_token, to_token, amount, sender, fee_tier, slippage_milli, include_wflr_steps, node) ==
    LET is_flr_source == Upper(from_token) = "FLR"
        wflr_address == TokenAddresses.WFLR
        to_token_address == TokenAddress(Upper(to_token))
        amount_in_wei == ToWei(amount)
        nonce == node.nonce
        wrapping == is_flr_source /\ include_wflr_steps
        wrap_tx ==
            [from |-> sender, to |-> wflr_address, value |-> amount_in_wei,
             data |-> [fn |-> "deposit", len |-> 10],
             gas |-> WrapGas, nonce |-> nonce,
             gasPrice |-> node.gas_price, chainId |-> node.chain_id]
        approve_tx ==
            [from |-> sender, to |-> wflr_address, value |-> 0,
             data |-> [fn |-> "approve", spender |-> V3RouterAddress,
                       amount |-> amount_in_wei, len |-> 138],
             gas |-> WrapGas, nonce |-> nonce + step,
             gasPrice |-> node.gas_price, chainId |-> node.chain_id]
        from_token_address ==
            IF wrapping THEN wflr_address ELSE TokenAddress(Upper(from_token))
        approval ==
            IF ~wrapping /\ ~is_flr_source
            THEN ApproveTokenIfNeeded(from_token_address, V3RouterAddress,
                                      amount_in_wei, sender, node)
            ELSE None
        first ==
            IF wrapping THEN << wrap_tx, approve_tx >>
            ELSE IF approval.kind = "tx" THEN << [approval.tx EXCEPT !.nonce = nonce] >>
            ELSE << >>
        swap_tx ==
            [from |-> sender, to |-> V3RouterAddress, gas |-> V3SwapGas,
             nonce |-> nonce + step * Len(first), value |-> 0,
             data |-> [fn |-> "exactInputSingle", tokenIn |-> from_token_address,
                       tokenOut |-> to_token_address, fee |-> fee_tier,
                       recipient |-> sender,
                       deadline |-> node.timestamp + DefaultDeadline,
                       amountIn |-> amount_in_wei, amountOutMinimum |-> 0,
                       sqrtPriceLimitX96 |-> 0, len |-> 522],
             gasPrice |-> node.gas_price, chainId |-> node.chain_id]
    IN  IF to_token_address = EmptyStr THEN Err("ValueError")
        ELSE IF ~wrapping /\ from_token_address = EmptyStr THEN Err("ValueError")
        ELSE [kind |-> "list", txs |-> first \o << swap_tx >>]

\* A mutation of create_v3_swap_tx: the nonce is not advanced between the steps.
CreateV3SwapTxSameNonce(from_token, to_token, amount, sender, fee_tier, slippage_milli, include_wflr_steps, node) ==
    V3SwapTxWith(0, from_token, to_token, amount, sender, fee_tier, slippage_milli,
                 include_wflr_steps, node)

\* DeFiService.create_v3_swap_tx
CreateV3SwapTx(from_token, to_token, amount, sender, fee_tier, slippage_milli, include_wflr_steps, node) ==
    V3SwapTxWith(1, from_token, to_token, amount, sender, fee_tier, slippage_milli,
                 include_wflr_steps, node)

\* A mutation of the same-token test: the symbols are compared as written.
SameTokenCaseSensitive(from_token, to_token) == from_token = to_token

\* The same-token test of create_swap_tx (line 800).
SameToken(from_token, to_token) == Upper(from_token) = Upper(to_token)

\* DeFiService.create_swap_tx
CreateSwapTx(from_token, to_token, amount, sender, use_v3, fee_tier, slippage_milli, include_flr_wrap, node) ==
    IF from_token = "" \/ to_token = "" THEN Err("ValueError")
    ELSE IF SameToken(from_token, to_token) THEN Err("ValueError")
    ELSE IF amount <= 0 THEN Err("ValueError")
    ELSE IF IsNone(sender) \/ ~IsAddress(sender) THEN Err("ValueError")
    ELSE IF use_v3
    THEN CreateV3SwapTx(from_token, to_token, amount, ToChecksum(sender), fee_tier,
                        slippage_milli, include_flr_wrap, node)
    ELSE LET pair == CreateV2SwapTx(from_token, to_token, amount, ToChecksum(sender),
                                    slippage_milli, node)
         IN  IF pair.kind = "error" THEN pair
             ELSE [kind |-> "list",
                   txs |-> (IF pair.approval_tx.kind = "tx"
                            THEN << pair.approval_tx.tx >> ELSE << >>)
                           \o << pair.swap_tx >>]

(***************************************************************************)
(* The provider's account, the chain, and the calls of the builder.        *)
(***************************************************************************)
MaxNonce == 3
MaxAmount == 15
BigAllowance == 100000
BlockTime == 1000

\* The node's answers at this moment.
Node ==
    [nonce |-> chain_nonce, gas_price |-> MaxGasPrice, max_priority_fee |-> MaxGasPrice,
     chain_id |-> "flare", timestamp |-> BlockTime]

\* FlareProvider.generate_account
GenerateAccount ==
    /\ b_call.kind = "none"
    /\ IsNone(address)
    /\ address' = ToChecksum(Sender)
    /\ UNCHANGED << chatVars, riskVars, reportVars, validatorVars, analyzerVars,
                    tx_queue, chain_nonce, chain_allowance, b_call >>

\* FlareProvider.reset
Reset ==
    /\ b_call.kind = "none"
    /\ ~IsNone(address)
    /\ address' = None
    /\ tx_queue' = << >>
    /\ UNCHANGED << chatVars, riskVars, reportVars, validatorVars, analyzerVars,
                    chain_nonce, chain_allowance, b_call >>

\* The chain: a transaction of the sender is mined.
ChainAdvance ==
    /\ b_call.kind = "none"
    /\ chain_nonce < MaxNonce
    /\ chain_nonce' = chain_nonce + 1
    /\ UNCHANGED << chatVars, riskVars, reportVars, validatorVars, analyzerVars,
                    address, tx_queue, chain_allowance, b_call >>

\* The chain: the router's allowance for the source token is granted or used up.
ChainApprove ==
    /\ b_call.kind = "none"
    /\ chain_allowance' = IF chain_allowance = 0 THEN BigAllowance ELSE 0
    /\ UNCHANGED << chatVars, riskVars, reportVars, validatorVars, analyzerVars,
                    address, tx_queue, chain_nonce, b_call >>

Amounts == {0 - MaxAmount, 0, 5, MaxAmount}
Symbols == {"FLR", "flr", "WFLR", "USDC", "usdc", "XYZ", ""}
Recipients == {Addr("eoa", "lower"), Addr("eoa", "checksum"), Addr("flr", "lower"),
               Addr("bad", "lower")}

\* One call of create_send_flr_tx.
BuildSend ==
    /\ b_call.kind = "none"
    /\ \E to \in Recipients, amount \in Amounts :
         b_call' = [kind |-> "returned", op |-> "send", to |-> to, amount |-> amount,
                    account |-> address, nonce |-> chain_nonce,
                    allowance |-> chain_allowance,
                    result |-> CreateSendFlrTx(to, amount, address, Node)]
    /\ UNCHANGED << chatVars, riskVars, reportVars, validatorVars, analyzerVars,
                    address, tx_queue, chain_nonce, chain_allowance >>

\* One call of create_swap_tx, with the default fee tier and slippage.
BuildSwap ==
    /\ b_call.kind = "none"
    /\ \E from_token \in Symbols, to_token \in Symbols, amount \in Amounts,
          sender \in {address, Addr("bad", "lower")},
          use_v3 \in BOOLEAN, include_flr_wrap \in BOOLEAN :
         b_call' = [kind |-> "returned", op |-> "swap",
                    from_token |-> from_token, to_token |-> to_token,
                    amount |-> amount, sender |-> sender,
                    use_v3 |-> use_v3, include_flr_wrap |-> include_flr_wrap,
                    account |-> address, nonce |-> chain_nonce,
                    allowance |-> chain_allowance,
                    result |-> CreateSwapTx(from_token, to_token, amount, sender, use_v3,
                                            DefaultFeeTier, SlippageMilli,
                                            include_flr_wrap, Node)]
    /\ UNCHANGED << chatVars, riskVars, reportVars, validatorVars, analyzerVars,
                    address, tx_queue, chain_nonce, chain_allowance >>

\* The caller takes the transactions built.
BuildReturn ==
    /\ b_call.kind = "returned"
    /\ b_call' = None
    /\ UNCHANGED << chatVars, riskVars, reportVars, validatorVars, analyzerVars,
                    address, tx_queue, chain_nonce, chain_allowance >>

(***************************************************************************)
(* ContractRiskAnalyzer.analyze_contract.                                  *)
(***************************************************************************)
\* Deployed code: its length in bytes and the patterns the scan looks for.
Code(len, dangerous, selfdestruct, delegatecall) ==
    [len |-> len, dangerous |-> dangerous, selfdestruct |-> selfdestruct,
     delegatecall |-> delegatecall]

\* The analyzer's allow-list: never populated.
AnalyzerKnownSafe == {}

\* BlockExplorerService.get_contract_verification
ExplorerVerified(contract_address) ==
    Lower(contract_address).id \in {"v2factory", "v2router", "quoter", "v3factory"}

\* _analyze_source_code applied to the explorer's source text.
SourceAnalysis ==
    [upgradeability_risk |-> FALSE, centralized_ownership |-> FALSE,
     access_control_issues |-> << >>]

\* A mutation of the cache check: force_refresh is ignored.
CacheHitIgnoringRefresh(force_refresh, key, cache) == key \in DOMAIN cache

\* The cache check of analyze_contract.
CacheHit(force_refresh, key, cache) == ~force_refresh /\ key \in DOMAIN cache

\* A mutation of the test below: no address counts as empty.
NotAContractNever(code) == FALSE

\* The test for an address without contract code.
NotAContract(code) == code.len <= 2

\* _analyze_bytecode: (dangerous functions, selfdestruct, delegatecall, is proxy);
\* the hex text has two characters per byte and the "0x" prefix.
AnalyzeBytecode(code) ==
    [dangerous_functions |-> code.dangerous,
     selfdestruct_found |-> code.selfdestruct,
     delegatecall_found |-> code.delegatecall,
     is_proxy |-> code.delegatecall /\ 2 * code.len + 2 < 1000]

\* RiskLevel(value), MEDIUM for a value that is no level.
ParseRiskLevel(value) ==
    CASE value = "safe" -> "SAFE"
      [] value = "low" -> "LOW"
      [] value = "medium" -> "MEDIUM"
      [] value = "high" -> "HIGH"
      [] value = "critical" -> "CRITICAL"
      [] OTHER -> "MEDIUM"

\* _perform_ai_analysis: the parsed reply, or the fallback for each failure.
AnalyzerAiAnalysis(ai) ==
    CASE ai.kind = "json" -> ai.json
      [] ai.kind = "text" ->
            [findings |-> << [title |-> "AI Analysis Incomplete", risk_level |-> "medium"] >>]
      [] ai.kind = "bad_json" ->
            [findings |-> << [title |-> "AI Analysis Error", risk_level |-> "medium"] >>]
      [] OTHER ->
            [findings |-> << [title |-> "AI Analysis Failed", risk_level |-> "medium"] >>]

RECURSIVE AddFindings(_, _)
\* report.add_finding for each finding of a list, in order.
AddFindings(rep, findings) ==
    IF findings = << >> THEN rep
    ELSE AddFindings(AddFinding(rep, Head(findings)), Tail(findings))

\* _generate_summary
GenerateSummary(rep) ==
    LET critical_count == Len(FindingsByLevel(rep, "CRITICAL"))
        high_count == Len(FindingsByLevel(rep, "HIGH"))
        medium_count == Len(FindingsByLevel(rep, "MEDIUM"))
        low_count == Len(FindingsByLevel(rep, "LOW"))
    IN  IF critical_count > 0
        THEN Summary("CRITICAL RISK: Found", << critical_count, high_count, medium_count >>)
        ELSE IF high_count > 0
        THEN Summary("HIGH RISK: Found", << high_count, medium_count >>)
        ELSE IF medium_count > 0
        THEN Summary("MEDIUM RISK: Found", << medium_count, low_count >>)
        ELSE IF low_count > 0
        THEN Summary("LOW RISK: Found", << low_count >>)
        ELSE Summary("Contract appears safe", << >>)

\* The findings of the bytecode scan, in the order the report receives them
\* (the title of a dangerous-function finding is written as the function's name).
BytecodeFindings(bytecode_analysis) ==
    LET names == bytecode_analysis.dangerous_functions
    IN  [i \in 1..Len(names) |-> RiskFinding("HIGH", names[i])]
        \o (IF bytecode_analysis.selfdestruct_found
            THEN << RiskFinding("HIGH", "Self-Destruct Found") >> ELSE << >>)
        \o (IF bytecode_analysis.delegatecall_found
            THEN << RiskFinding("MEDIUM", "Delegatecall Usage") >> ELSE << >>)
        \o (IF bytecode_analysis.is_proxy
            THEN << RiskFinding("MEDIUM", "Proxy Pattern Detected") >> ELSE << >>)

\* The findings of the source analysis.
SourceFindings(source_analysis) ==
    (IF source_analysis.upgradeability_risk
     THEN << RiskFinding("MEDIUM", "Upgradeable Contract") >> ELSE << >>)
    \o (IF source_analysis.centralized_ownership
        THEN << RiskFinding("MEDIUM", "Centralized Control") >> ELSE << >>)
    \o [i \in 1..Len(source_analysis.access_control_issues) |->
            RiskFinding("MEDIUM", source_analysis.access_control_issues[i])]

\* The findings of the AI pass.
AiFindings(ai_analysis) ==
    IF "findings" \in DOMAIN ai_analysis
    THEN [i \in 1..Len(ai_analysis.findings) |->
            RiskFinding(ParseRiskLevel(Get(ai_analysis.findings[i], "risk_level", "medium")),
                        Get(ai_analysis.findings[i], "title", "AI-detected Issue"))]
    ELSE << >>

\* The overall level recomputed from the findings.
LevelFromFindings(rep) ==
    IF Len(FindingsByLevel(rep, "CRITICAL")) > 0 THEN "CRITICAL"
    ELSE IF Len(FindingsByLevel(rep, "HIGH")) > 0 THEN "HIGH"
    ELSE IF Len(FindingsByLevel(rep, "MEDIUM")) > 0 THEN "MEDIUM"
    ELSE IF Len(FindingsByLevel(rep, "LOW")) > 0 THEN "LOW"
    ELSE "SAFE"

\* analyze_contract(contract_address, force_refresh) with the cache as it is,
\* the code deployed at the address, and the answers of the node and the AI:
\* the report returned (or the error raised), the cache left behind, and the
\* outside calls made.
AnalyzeContract(contract_address, force_refresh, cache, code, rpc, ai) ==
    IF ~IsAddress(contract_address)
    THEN [result |-> Err("ValueError"), cache |-> cache, calls |-> {}]
    ELSE
    LET key == ToChecksum(contract_address)
        Store(rep, calls) ==
            [result |-> rep, cache |-> (key :> rep) @@ cache, calls |-> calls]
    IN
    IF CacheHit(force_refresh, key, cache)
    THEN [result |-> cache[key], cache |-> cache, calls |-> {}]
    ELSE IF rpc = "raise"
    THEN [result |-> Err("RPCError"), cache |-> cache, calls |-> {"chain_id"}]
    ELSE
    LET report0 == NewReport(key, "LOW")
    IN
    IF NotAContract(code)
    THEN Store([AddFinding([report0 EXCEPT !.risk_level = "CRITICAL"],
                           RiskFinding("CRITICAL", "Not a Contract"))
                  EXCEPT !.summary = Summary("CRITICAL RISK: Not a valid smart contract.", << >>)],
               {"chain_id", "get_code"})
    ELSE IF key \in AnalyzerKnownSafe
    THEN Store([report0 EXCEPT !.risk_level = "SAFE", !.is_verified = TRUE,
                               !.is_trusted = TRUE,
                               !.summary = Summary("This contract is verified and marked as trusted.", << >>)],
               {"chain_id", "get_code"})
    ELSE
    LET is_verified == ExplorerVerified(key)
        report1 == [report0 EXCEPT !.is_verified = is_verified]
        report2 == IF ~is_verified
                   THEN AddFinding([report1 EXCEPT !.risk_level = "MEDIUM"],
                                   RiskFinding("MEDIUM", "Unverified Contract"))
                   ELSE report1
        report3 == AddFindings(report2, BytecodeFindings(AnalyzeBytecode(code)))
        report4 == IF is_verified
                   THEN AddFindings(report3, SourceFindings(SourceAnalysis))
                   ELSE report3
        report5 == AddFindings(report4, AiFindings(AnalyzerAiAnalysis(ai)))
        report6 == [report5 EXCEPT !.risk_level = LevelFromFindings(report5)]
        report7 == [report6 EXCEPT !.summary = GenerateSummary(report6)]
    IN  Store(report7,
              {"chain_id", "get_code", "explorer_verification", "bytecode_scan", "ai"}
                  \cup (IF is_verified THEN {"explorer_source", "source_scan"} ELSE {}))

\* The contracts analysed: "token" is unknown to the explorer, "v2router" is verified.
ContractIds == {"token", "v2router"}

EmptyCode == Code(0, << >>, FALSE, FALSE)
PlainCode == Code(CodeLen, << >>, FALSE, FALSE)
Codes ==
    {EmptyCode, Code(2, << >>, FALSE, FALSE), PlainCode,
     Code(CodeLen, << "selfdestruct(address)" >>, TRUE, TRUE)}

AnalyzedAddresses ==
    {Addr(id, cs) : id \in ContractIds, cs \in {"lower", "checksum"}}
        \cup {Addr("bad", "lower")}

AnalyzerAiReplies ==
    {[kind |-> "raise"],
     [kind |-> "json", json |-> [security_score |-> DefaultScore]],
     [kind |-> "json", json |-> [findings |-> << >>]],
     [kind |-> "json", json |-> [findings |-> << [risk_level |-> "critical"] >>]],
     [kind |-> "json", json |-> [findings |-> << [title |-> "Note", risk_level |-> "low"] >>]]}

\* One call of analyze_contract.
Analyze ==
    /\ a_call.kind = "none"
    /\ \E contract_address \in AnalyzedAddresses, force_refresh \in BOOLEAN,
          rpc \in {"ok", "raise"}, ai \in AnalyzerAiReplies :
         LET code == IF IsAddress(contract_address)
                     THEN chain_code[contract_address.id] ELSE EmptyCode
             out == AnalyzeContract(contract_address, force_refresh, contract_cache,
                                    code, rpc, ai)
         IN  /\ a_call' = [kind |-> "returned", contract_address |-> contract_address,
                           force_refresh |-> force_refresh,
                           cache_before |-> contract_cache, code |-> code,
                           calls |-> out.calls, result |-> out.result]
             /\ contract_cache' = out.cache
    /\ UNCHANGED << chatVars, riskVars, reportVars, validatorVars, builderVars, chain_code >>

\* The caller takes the report.
AnalyzeReturn ==
    /\ a_call.kind = "returned"
    /\ a_call' = None
    /\ UNCHANGED << chatVars, riskVars, reportVars, validatorVars, builderVars,
                    contract_cache, chain_code >>

\* The chain: code is deployed at, or removed from, an address.
ChainCodeChange ==
    /\ a_call.kind = "none"
    /\ \E id \in ContractIds, code \in Codes :
         /\ code # chain_code[id]
         /\ chain_code' = [chain_code EXCEPT ![id] = code]
    /\ UNCHANGED << chatVars, riskVars, reportVars, validatorVars, builderVars,
                    contract_cache, a_call >>

(***************************************************************************)
(* FlareProvider: the transaction queue and the signer.                    *)
(***************************************************************************)

\* TxQueueElement(msg, tx)
TxQueueElement(msg, tx) == [msg |-> msg, tx |-> tx]

\* A mutation of add_tx_to_queue: a queue of two entries takes no third.
AddTxToQueueUpToTwo(queue, msg, tx) ==
    IF Len(queue) >= 2 THEN queue ELSE Append(queue, TxQueueElement(msg, tx))

\* FlareProvider.add_tx_to_queue
AddTxToQueue(queue, msg, tx) == Append(queue, TxQueueElement(msg, tx))

\* The network's answer to a signed transaction of the sender: it is mined
\* ("ok") when its nonce is the sender's transaction count; a lower nonce is
\* refused by the node (Web3RPCError, "nonce too low"), a higher one is never
\* mined and wait_for_transaction_receipt gives up (TimeExhausted).  fault is
\* a failure the environment adds: "none", "rpc_error" or "error".
Broadcast(tx, count, fault) ==
    IF fault # "none" THEN fault
    ELSE IF tx.nonce < count THEN "rpc_error"
    ELSE IF tx.nonce > count THEN "error"
    ELSE "ok"

\* FlareProvider.sign_and_send_transaction: "ok" (the hash is returned) or the
\* kind of exception raised.
SignAndSendTransaction(tx, account, count, fault) ==
    IF IsNone(account) THEN "ValueError"
    ELSE IF tx.from # account THEN "error"
    ELSE Broadcast(tx, count, fault)

\* A mutation of send_tx_in_queue: a transaction that failed stays queued.
SendTxInQueueKeepFailed(queue, account, count, fault) ==
    IF queue = << >>
    THEN [outcome |-> "ValueError", queue |-> queue, signed |-> << >>]
    ELSE LET outcome == SignAndSendTransaction(queue[1].tx, account, count, fault)
         IN  [outcome |-> outcome,
              queue |-> IF outcome = "ok" THEN Tail(queue) ELSE queue,
              signed |-> << queue[1] >>]

\* FlareProvider.send_tx_in_queue: the outcome ("ok", or the exception raised),
\* the queue left behind and the entries given to sign_and_send_transaction.
SendTxInQueue(queue, account, count, fault) ==
    IF queue = << >>
    THEN [outcome |-> "ValueError", queue |-> queue, signed |-> << >>]
    ELSE LET outcome == SignAndSendTransaction(queue[1].tx, account, count, fault)
         IN  [outcome |-> outcome, queue |-> Tail(queue), signed |-> << queue[1] >>]

\* The sender's transaction count after a broadcast.
CountAfter(count, outcome) == IF outcome = "ok" THEN count + 1 ELSE count

MaxEntries == 4
MaxQueue == 3
Faults == {"none", "rpc_error", "error"}
QueueMsgs == << "tx 1", "tx 2", "tx 3", "tx 4", "tx 5", "tx 6" >>

\* A direct call of add_tx_to_queue with a transfer just built; every call
\* passes a message of its own.
QueueAdd ==
    /\ q_call.kind = "none"
    /\ next_msg <= MaxEntries
    /\ Len(tx_queue) < MaxQueue
    /\ ~IsNone(address)
    /\ \E to \in {Addr("eoa", "lower"), Addr("wflr", "checksum")} :
         LET built == CreateSendFlrTx(to, 5, address, Node)
         IN  /\ tx_queue' = AddTxToQueue(tx_queue, QueueMsgs[next_msg], built.tx)
             /\ q_call' = [kind |-> "returned", op |-> "add", queue_before |-> tx_queue]
    /\ next_msg' = next_msg + 1
    /\ UNCHANGED << riskVars, reportVars, validatorVars, analyzerVars,
                    address, chain_nonce, chain_allowance, b_call,
                    handed, attestation_requested, c_call >>

\* A direct call of send_tx_in_queue, run to its return or its exception.
QueueSend ==
    /\ q_call.kind = "none"
    /\ \E fault \in Faults :
         LET out == SendTxInQueue(tx_queue, address, chain_nonce, fault)
         IN  /\ CountAfter(chain_nonce, out.outcome) <= MaxNonce
             /\ tx_queue' = out.queue
             /\ handed' = handed \o out.signed
             /\ chain_nonce' = CountAfter(chain_nonce, out.outcome)
             /\ q_call' = [kind |-> "returned", op |-> "send", queue_before |-> tx_queue,
                           outcome |-> out.outcome, signed |-> out.signed]
    /\ UNCHANGED << riskVars, reportVars, validatorVars, analyzerVars,
                    address, chain_allowance, b_call,
                    next_msg, attestation_requested, c_call >>

\* FlareProvider.generate_account, called directly: a new key, which has sent
\* nothing yet.  Entries queued for the key it replaces stay queued.
QueueGenerateAccount ==
    /\ q_call.kind = "none"
    /\ address' = IF address = ToChecksum(Sender) THEN ToChecksum(OtherSender) ELSE ToChecksum(Sender)
    /\ chain_nonce' = 0
    /\ q_call' = [kind |-> "returned", op |-> "generate_account", queue_before |-> tx_queue]
    /\ UNCHANGED << riskVars, reportVars, validatorVars, analyzerVars,
                    tx_queue, chain_allowance, b_call,
                    next_msg, handed, attestation_requested, c_call >>

\* FlareProvider.reset, called directly.
QueueReset ==
    /\ q_call.kind = "none"
    /\ address' = None
    /\ tx_queue' = << >>
    /\ q_call' = [kind |-> "returned", op |-> "reset", queue_before |-> tx_queue]
    /\ UNCHANGED << riskVars, reportVars, validatorVars, analyzerVars,
                    chain_nonce, chain_allowance, b_call,
                    next_msg, handed, attestation_requested, c_call >>

\* The caller takes the hash, or handles the exception.
QueueReturn ==
    /\ q_call.kind = "returned"
    /\ q_call' = None
    /\ UNCHANGED << riskVars, reportVars, validatorVars, analyzerVars, builderVars,
                    next_msg, handed, attestation_requested, c_call >>


(***************************************************************************)
(* ChatRouter: the chat endpoint and its handlers.  A request is answered   *)
(* by a response message or by HTTP 500 (the endpoint's except clause).     *)
(* st is the state the handlers work on: the provider's address, queue and  *)
(* transaction count, the validator's known-safe set, the attestation flag. *)
(***************************************************************************)
Respond(text, st) == [outcome |-> "response", response |-> text, st |-> st, signed |-> << >>, validations |-> << >>]

\* raise HTTPException(status_code=500, detail=str(e))
Http500(st) == [outcome |-> "http500", response |-> "", st |-> st, signed |-> << >>, validations |-> << >>]

\* The messages drawn, with str.startswith("/") and str.lower() on them.
Messages == {"/reset", "/help", "confirm", "CONFIRM", "Confirmed", "confirm please", "hello"}

StartsWithSlash(text) == text \in {"/reset", "/help"}

LowerText(text) ==
    CASE text = "CONFIRM" -> "confirm"
      [] text = "Confirmed" -> "confirmed"
      [] OTHER -> text

\* A mutation of the confirmation test: a message that starts with it counts.
IsConfirmationPrefix(text) == LowerText(text) \in {"confirm", "confirmed", "confirm please"}

\* message.message.lower() in ["confirm", "confirmed"]
IsConfirmation(text) == LowerText(text) \in {"confirm", "confirmed"}

\* ChatRouter.handle_command
HandleCommand(command, st) ==
    IF command = "/reset"
    THEN Respond("Reset complete", [st EXCEPT !.address = None, !.tx_queue = << >>])
    ELSE Respond("Unknown command", st)

\* ChatRouter.validate_transaction_before_sending: only CRITICAL blocks; a
\* validation that raises lets the transaction through as "unknown".
ValidateTransactionBeforeSending(tx, st, env) ==
    LET out == ValidateTransaction(tx, st.address, env.rpc, env.ai, st.known_safe, scam_addresses)
    IN  [is_valid |-> out.raised \/ out.result.risk_level # "CRITICAL",
         risk_level |-> IF out.raised THEN "unknown" ELSE out.result.risk_level,
         completed |-> ~out.raised,
         result_is_valid |-> ~out.raised /\ out.result.is_valid,
         warnings |-> IF out.raised THEN << >> ELSE out.result.warnings,
         tx |-> tx, sender |-> st.address, count |-> st.chain_nonce,
         known_safe |-> out.known_safe]

\* The confirm loop keeps in acc: the state, the number of hashes collected,
\* the entries signed, the validation results, and how the loop ended ("" while
\* it runs; "blocked", "rpc_error" or "error" when a round left it).

\* The second half of a round (lines 157-166): send_tx_in_queue has run.
ConfirmSend(acc, validations, st1, sent) ==
    [st |-> [st1 EXCEPT !.tx_queue = sent.queue, !.chain_nonce = CountAfter(st1.chain_nonce, sent.outcome)],
     hashes |-> IF sent.outcome = "ok" THEN acc.hashes + 1 ELSE acc.hashes,
     signed |-> acc.signed \o sent.signed,
     validations |-> validations,
     ended |-> CASE sent.outcome = "ok" -> ""
                 [] sent.outcome = "rpc_error" -> "rpc_error"
                 [] OTHER -> "error"]

\* A mutation of a round: an entry that validation blocks is dropped.
ConfirmRoundDropBlocked(i, acc, env, validation_result) ==
    IF ~validation_result.is_valid
    THEN [acc EXCEPT !.st.known_safe = validation_result.known_safe,
                     !.st.tx_queue = Tail(acc.st.tx_queue),
                     !.validations = Append(acc.validations, validation_result),
                     !.ended = "blocked"]
    ELSE ConfirmSend(acc, Append(acc.validations, validation_result),
                     [acc.st EXCEPT !.known_safe = validation_result.known_safe],
                     SendTxInQueue(acc.st.tx_queue, acc.st.address, acc.st.chain_nonce,
                                   IF i = env.fault_at THEN env.fault ELSE "none"))

\* The i-th round of the loop (lines 125-159): the head of the queue has been
\* validated; it is sent unless the validation says it is not valid.
ConfirmRound(i, acc, env, validation_result) ==
    IF ~validation_result.is_valid
    THEN [acc EXCEPT !.st.known_safe = validation_result.known_safe,
                     !.validations = Append(acc.validations, validation_result),
                     !.ended = "blocked"]
    ELSE ConfirmSend(acc, Append(acc.validations, validation_result),
                     [acc.st EXCEPT !.known_safe = validation_result.known_safe],
                     SendTxInQueue(acc.st.tx_queue, acc.st.address, acc.st.chain_nonce,
                                   IF i = env.fault_at THEN env.fault ELSE "none"))

\* A node that answers, with funds for every transaction and no code at the
\* target, and an AI reply that finds nothing wrong.
QuietRpc == [raises |-> FALSE, balance |-> BigBalance, gas_price |-> MaxGasPrice, code_len |-> 0]
QuietAi == [kind |-> "json", json |-> [security_score |-> 100, risk_assessment |-> "text"]]

\* What the validator's node and AI provider answer in the i-th round: each
\* round asks them anew, and env.rpc and env.ai are their answers from round
\* env.answers_from on; before it they answer quietly.
RoundEnv(i, env) ==
    IF i < env.answers_from THEN [env EXCEPT !.rpc = QuietRpc, !.ai = QuietAi] ELSE env

\* The loop of the confirm branch from its i-th round on.
RECURSIVE ConfirmLoop(_, _, _, _)
ConfirmLoop(i, tx_count, acc, env) ==
    IF i > tx_count \/ acc.st.tx_queue = << >> \/ acc.ended # "" THEN acc
    ELSE ConfirmLoop(i + 1, tx_count, ConfirmRound(i, acc, env, ValidateTransactionBeforeSending(acc.st.tx_queue[1].tx, acc.st, RoundEnv(i, env))), env)

\* How the confirm branch answers once the loop is left (lines 139, 161-191).
ConfirmAnswer(acc, env) ==
    [outcome |-> IF acc.ended = "error" \/ (acc.ended = "" /\ acc.hashes > 0 /\ ~env.ai_ok)
                 THEN "http500" ELSE "response",
     response |-> CASE acc.ended = "blocked" -> "CRITICAL RISK: This transaction was blocked for your safety."
                    [] acc.ended = "rpc_error" -> "Unfortunately the transaction failed with the error:"
                    [] acc.ended = "error" -> ""
                    [] acc.hashes = 0 -> "No transactions were processed. Please try again."
                    [] env.ai_ok -> "tx_confirmation"
                    [] OTHER -> "",
     st |-> acc.st, signed |-> acc.signed, validations |-> acc.validations]

\* The confirm branch of the endpoint (lines 115-191).
HandleConfirm(st, env) ==
    ConfirmAnswer(ConfirmLoop(1, Len(st.tx_queue), [st |-> st, hashes |-> 0, signed |-> << >>, validations |-> << >>, ended |-> ""], env), env)

\* The attestation branch of the endpoint (lines 192-198).
HandleAttestationToken(st, env) ==
    IF env.attestation = "error" THEN Http500(st)
    ELSE Respond(IF env.attestation = "ok" THEN "attestation token" ELSE "The attestation failed with  error:",
                 [st EXCEPT !.attestation_requested = FALSE])

\* ChatRouter.handle_generate_account
HandleGenerateAccount(st, env) ==
    IF ~IsNone(st.address)
    THEN IF env.node_ok THEN Respond("Account exists", st) ELSE Http500(st)
    ELSE LET st1 == [st EXCEPT !.address = ToChecksum(Sender), !.chain_nonce = 0]
         IN  IF env.ai_ok THEN Respond("generate_account", st1) ELSE Http500(st1)

\* A mutation of the amount test: an amount of zero counts.
NonZeroUnchecked(j, k) == k \in DOMAIN j

\* "k" in json and json.get("k") != 0.0
NonZero(j, k) == k \in DOMAIN j /\ j[k] # 0

\* ChatRouter.handle_send_token.  env.extraction is the AI's reply: kind
\* "json" with the object in json, or "text" (not JSON).
HandleSendToken(message, st, env) ==
    IF IsNone(st.address) THEN Respond("No account exists. Please create an account first.", st)
    ELSE IF ~env.ai_ok THEN Http500(st)
    ELSE LET send_token_json == env.extraction.json
             has_to_address == "to_address" \in DOMAIN send_token_json
             has_amount == NonZero(send_token_json, "amount")
         IN  IF env.extraction.kind # "json" \/ ~(has_to_address /\ has_amount)
             THEN Respond("follow_up_token_send", st)
             ELSE IF ~env.node_ok THEN Http500(st)
             ELSE LET built == CreateSendFlrTx(send_token_json.to_address, send_token_json.amount, st.address,
                                               [Node EXCEPT !.nonce = st.chain_nonce])
                  IN  IF built.kind = "error" THEN Http500(st)
                      ELSE Respond("Transaction Preview: Type CONFIRM to proceed.",
                                   [st EXCEPT !.tx_queue = AddTxToQueue(st.tx_queue, message, built.tx)])

\* ChatRouter._create_swap_transaction
CreateSwapTransaction(message, swap_token_json, st, env) ==
    LET st1 == [st EXCEPT !.tx_queue = << >>]
        from_token == swap_token_json.from_token
        transactions == CreateSwapTx(from_token, swap_token_json.to_token, swap_token_json.amount,
                                     st.address, TRUE, DefaultFeeTier, SlippageMilli, TRUE,
                                     [Node EXCEPT !.nonce = st.chain_nonce])
        txs == transactions.txs
        is_flr_wrap_flow == Upper(from_token) = "FLR" /\ Len(txs) = 3
    IN  IF ~env.node_ok \/ transactions.kind = "error"
        THEN Respond("Failed to create swap transaction:", st1)
        ELSE IF is_flr_wrap_flow
        THEN Respond("I've prepared the complete swap. Type CONFIRM to proceed with these transactions.",
                     [st1 EXCEPT !.tx_queue = AddTxToQueue(AddTxToQueue(AddTxToQueue(<< >>,
                          "Wrap FLR to WFLR", txs[1]), "Approve WFLR for swap", txs[2]), "Swap WFLR", txs[3])])
        ELSE IF Len(txs) = 2
        THEN Respond("You need to approve first. Type CONFIRM to proceed with both transactions.",
                     [st1 EXCEPT !.tx_queue = AddTxToQueue(AddTxToQueue(<< >>,
                          "Approve for swap", txs[1]), "Swap", txs[2])])
        ELSE IF Len(txs) = 1
        THEN Respond("I'll swap. Type CONFIRM to proceed with the swap transaction.",
                     [st1 EXCEPT !.tx_queue = AddTxToQueue(<< >>, "Swap", txs[1])])
        ELSE Respond("Unable to create swap transaction (unexpected transaction format).", st1)

\* ChatRouter.handle_swap_token.  For a reply that is not JSON, json holds the
\* fields the regular expressions of lines 452-453 find in the text.
HandleSwapToken(message, st, env) ==
    IF IsNone(st.address) THEN Respond("No account exists. Please create an account first.", st)
    ELSE IF ~env.ai_ok THEN Http500(st)
    ELSE LET j == env.extraction.json
             has_from_token == "from_token" \in DOMAIN j
             has_to_token == "to_token" \in DOMAIN j
             amount_given == NonZero(j, "amount")
             has_amount == amount_given \/ (has_from_token /\ has_to_token)
             tokens_are_different == has_from_token /\ has_to_token /\ j.from_token # j.to_token
             swap_token_json == [from_token |-> j.from_token, to_token |-> j.to_token,
                                 amount |-> IF amount_given /\ env.extraction.kind = "json" THEN j.amount ELSE 10]
         IN  IF has_amount /\ has_from_token /\ has_to_token /\ tokens_are_different
             THEN CreateSwapTransaction(message, swap_token_json, st, env)
             ELSE Respond("follow_up_token_send", st)

\* ChatRouter.handle_add_liquidity.  Every path past the validation of the
\* extraction ends in the handler's except clause: create_add_liquidity_tx
\* either raises or returns approvals (one for each token that is not FLR, and
\* the tokens differ), and with approvals line 668 calls
\* self.defi._get_token_address, which DeFiService does not have.
HandleAddLiquidity(message, st, env) ==
    IF IsNone(st.address) THEN Respond("No account exists. Please create an account first.", st)
    ELSE IF ~env.ai_ok THEN Http500(st)
    ELSE LET j == env.extraction.json
             has_token_a == "token_a" \in DOMAIN j
             has_token_b == "token_b" \in DOMAIN j
             has_amount_a == NonZero(j, "amount_a")
             has_amount_b == NonZero(j, "amount_b")
             tokens_are_different == has_token_a /\ has_token_b /\ j.token_a # j.token_b
         IN  IF env.extraction.kind # "json"
                \/ ~(has_token_a /\ has_token_b /\ has_amount_a /\ has_amount_b /\ tokens_are_different)
             THEN Respond("follow_up_token_send", st)
             ELSE Respond("Failed to create add liquidity transaction:", st)

\* ChatRouter.handle_check_balance
HandleCheckBalance(st, env) ==
    IF IsNone(st.address) THEN Respond("No account exists. Please create an account first.", st)
    ELSE IF ~env.node_ok THEN Http500(st)
    ELSE Respond("Your current balances:", st)

\* ChatRouter.handle_attestation
HandleAttestation(st, env) ==
    IF ~env.ai_ok THEN Http500(st)
    ELSE Respond("request_attestation", [st EXCEPT !.attestation_requested = TRUE])

\* ChatRouter.handle_conversation
HandleConversation(message, st, env) ==
    IF ~env.ai_ok THEN Http500(st) ELSE Respond("conversation", st)

Routes == {"GENERATE_ACCOUNT", "SEND_TOKEN", "SWAP_TOKEN", "ADD_LIQUIDITY", "CHECK_BALANCE", "REQUEST_ATTESTATION", "CONVERSATIONAL"}

\* ChatRouter.route_message; env.route is what get_semantic_route returned.
RouteMessage(message, st, env) ==
    CASE env.route = "GENERATE_ACCOUNT" -> HandleGenerateAccount(st, env)
      [] env.route = "SEND_TOKEN" -> HandleSendToken(message, st, env)
      [] env.route = "SWAP_TOKEN" -> HandleSwapToken(message, st, env)
      [] env.route = "ADD_LIQUIDITY" -> HandleAddLiquidity(message, st, env)
      [] env.route = "CHECK_BALANCE" -> HandleCheckBalance(st, env)
      [] env.route = "REQUEST_ATTESTATION" -> HandleAttestation(st, env)
      [] env.route = "CONVERSATIONAL" -> HandleConversation(message, st, env)
      [] OTHER -> Respond("Unsupported route", st)

\* Which branch of the endpoint a message takes (lines 112-201).
Branch(message, st) ==
    IF StartsWithSlash(message) THEN "command"
    ELSE IF st.tx_queue # << >> /\ IsConfirmation(message) THEN "confirm"
    ELSE IF st.attestation_requested THEN "attestation"
    ELSE "route"

\* The chat endpoint (lines 97-205).
Chat(message, st, env) ==
    IF StartsWithSlash(message) THEN HandleCommand(message, st)
    ELSE IF st.tx_queue # << >> /\ IsConfirmation(message) THEN HandleConfirm(st, env)
    ELSE IF st.attestation_requested THEN HandleAttestationToken(st, env)
    ELSE RouteMessage(message, st, env)

\* What the services outside the router answer during one request: the route
\* chosen, whether the AI and the node answer the handlers, the AI's
\* extraction, the validator's node and AI answers, the attestation service,
\* and the broadcast that fails (fault at round fault_at), if any.
QuietEnv ==
    [route |-> "CONVERSATIONAL", ai_ok |-> TRUE, node_ok |-> TRUE,
     extraction |-> [kind |-> "text", json |-> << >>],
     rpc |-> QuietRpc, ai |-> QuietAi,
     attestation |-> "ok", fault |-> "none", fault_at |-> 1, answers_from |-> 1]

SendExtractions ==
    { [kind |-> "text", json |-> << >>],
      [kind |-> "json", json |-> [to_address |-> Addr("eoa", "lower")]],
      [kind |-> "json", json |-> [to_address |-> Addr("eoa", "lower"), amount |-> 0]],
      [kind |-> "json", json |-> [to_address |-> Addr("eoa", "lower"), amount |-> 5]],
      [kind |-> "json", json |-> [to_address |-> Addr("bad", "lower"), amount |-> 5]] }

SwapExtractions ==
    { [kind |-> "text", json |-> << >>],
      [kind |-> "text", json |-> [from_token |-> "USDC", to_token |-> "WFLR"]],
      [kind |-> "json", json |-> [from_token |-> "FLR", to_token |-> "USDC", amount |-> 5]],
      [kind |-> "json", json |-> [from_token |-> "FLR", to_token |-> "USDC"]],
      [kind |-> "json", json |-> [from_token |-> "FLR", to_token |-> "USDC", amount |-> 0]],
      [kind |-> "json", json |-> [from_token |-> "flr", to_token |-> "FLR", amount |-> 5]],
      [kind |-> "json", json |-> [from_token |-> "USDC", to_token |-> "USDC", amount |-> 5]] }

LiquidityExtractions ==
    { [kind |-> "text", json |-> << >>],
      [kind |-> "json", json |-> [token_a |-> "FLR", token_b |-> "USDC", amount_a |-> 5, amount_b |-> 5]],
      [kind |-> "json", json |-> [token_a |-> "FLR", token_b |-> "USDC", amount_a |-> 5, amount_b |-> 0]],
      [kind |-> "json", json |-> [token_a |-> "FLR", amount_a |-> 5, amount_b |-> 5]],
      [kind |-> "json", json |-> [token_a |-> "USDC", token_b |-> "USDC", amount_a |-> 5, amount_b |-> 5]] }

Extractions(route) ==
    CASE route = "SEND_TOKEN" -> SendExtractions
      [] route = "SWAP_TOKEN" -> SwapExtractions
      [] route = "ADD_LIQUIDITY" -> LiquidityExtractions
      [] OTHER -> {QuietEnv.extraction}

ValidatorAnswers ==
    { << QuietEnv.rpc, QuietEnv.ai, 1 >>,
      << QuietEnv.rpc, [kind |-> "json", json |-> [security_score |-> 5, risk_assessment |-> "text"]], 1 >>,
      << QuietEnv.rpc, [kind |-> "json", json |-> [security_score |-> 5, risk_assessment |-> "text"]], 2 >>,
      << QuietEnv.rpc, [kind |-> "json", json |-> [security_score_text |-> "85", risk_assessment |-> "text"]], 1 >>,
      << [raises |-> TRUE, balance |-> 0, gas_price |-> 0, code_len |-> 0], [kind |-> "raise", json |-> << >>], 1 >> }

Envs(branch) ==
    CASE branch = "command" -> {QuietEnv}
      [] branch = "confirm" ->
            { [QuietEnv EXCEPT !.rpc = v[1], !.ai = v[2], !.answers_from = v[3], !.fault = f[1], !.fault_at = f[2], !.ai_ok = ok] :
                v \in ValidatorAnswers, ok \in BOOLEAN,
                f \in {<< "none", 1 >>} \cup ({"rpc_error", "error"} \X (1..2)) }
      [] branch = "attestation" ->
            { [QuietEnv EXCEPT !.attestation = a] : a \in {"ok", "VtpmAttestationError", "error"} }
      [] branch = "route" ->
            UNION { { [QuietEnv EXCEPT !.route = r, !.ai_ok = ok[1], !.node_ok = ok[2], !.extraction = x] :
                        ok \in {<< TRUE, TRUE >>, << FALSE, TRUE >>, << TRUE, FALSE >>},
                        x \in Extractions(r) } : r \in Routes }

\* One request to the chat endpoint, run to its answer.
ChatRequest ==
    /\ c_call.kind = "none"
    /\ \E message \in Messages :
         LET st == [address |-> address, tx_queue |-> tx_queue, chain_nonce |-> chain_nonce,
                    known_safe |-> known_safe_contracts,
                    attestation_requested |-> attestation_requested]
         IN  \E env \in Envs(Branch(message, st)) :
               \E out \in {Chat(message, st, env)} :
                   /\ Len(out.st.tx_queue) <= MaxQueue
                   /\ out.st.chain_nonce <= MaxNonce
                   /\ address' = out.st.address
                   /\ tx_queue' = out.st.tx_queue
                   /\ chain_nonce' = out.st.chain_nonce
                   /\ known_safe_contracts' = out.st.known_safe
                   /\ attestation_requested' = out.st.attestation_requested
                   /\ c_call' = [kind |-> "returned", message |-> message,
                                 branch |-> Branch(message, st), env |-> env,
                                 queue_before |-> tx_queue, account |-> address,
                                 outcome |-> out.outcome, response |-> out.response,
                                 signed |-> out.signed, validations |-> out.validations]
    /\ UNCHANGED << riskVars, reportVars, scam_addresses, v_call, analyzerVars,
                    chain_allowance, b_call, q_call, next_msg, handed >>

\* The response, or the HTTP error, has gone to the client.
ChatReturn ==
    /\ c_call.kind = "returned"
    /\ c_call' = None
    /\ UNCHANGED << riskVars, reportVars, validatorVars, analyzerVars, builderVars,
                    q_call, next_msg, handed, attestation_requested >>


(***************************************************************************)
(* Initial state and specifications.                                       *)
(***************************************************************************)
Init ==
    /\ cmp = None
    /\ report = None
    /\ known_safe_contracts = InitialKnownSafe
    /\ scam_addresses = {}
    /\ v_call = None
    /\ contract_cache = << >>
    /\ chain_code = [id \in ContractIds |-> PlainCode]
    /\ a_call = None
    /\ address = None
    /\ tx_queue = << >>
    /\ chain_nonce = 0
    /\ chain_allowance = 0
    /\ b_call = None
    /\ q_call = None
    /\ next_msg = 1
    /\ handed = << >>
    /\ attestation_requested = FALSE
    /\ c_call = None

NextRisk == CompareRisk
SpecRisk == Init /\ [][NextRisk]_vars

NextReport == ConstructReport \/ ReportAddFinding
SpecReport == Init /\ [][NextReport]_vars

NextValidator == Validate \/ ValidateReturn \/ LoadScamAddresses
SpecValidator == Init /\ [][NextValidator]_vars

NextQueue == QueueAdd \/ QueueSend \/ QueueGenerateAccount \/ QueueReset \/ QueueReturn
SpecQueue == Init /\ [][NextQueue]_vars

NextChat == ChatRequest \/ ChatReturn
SpecChat == Init /\ [][NextChat]_vars

NextMerge == Merge \/ ValidateReturn
SpecMerge == Init /\ [][NextMerge]_vars

NextAnalyzer == Analyze \/ AnalyzeReturn \/ ChainCodeChange
SpecAnalyzer == Init /\ [][NextAnalyzer]_vars

NextBuilder ==
    \/ GenerateAccount
    \/ Reset
    \/ ChainAdvance
    \/ ChainApprove
    \/ BuildSend
    \/ BuildSwap
    \/ BuildReturn
SpecBuilder == Init /\ [][NextBuilder]_vars

(***************************************************************************)
(* Claims about validate_transaction (SpecValidator).                      *)
(***************************************************************************)
Returned == v_call.kind = "returned"

\* The call passed structural and security validation.
PassedChecks ==
    ReachesSimulation(v_call.tx, v_call.sender, v_call.known_safe_before, scam_addresses)

\* The lower-cased target was in the known-safe set when the call was made.
TargetKnownSafe ==
    /\ "to" \in DOMAIN v_call.tx
    /\ Lower(v_call.tx.to) \in v_call.known_safe_before

\* C1: a transaction that passes structural and security validation and whose
\* lower-cased target is in the known-safe set gets risk_level LOW and
\* is_valid true, whatever the warnings, the simulation and the AI score.
C1_KnownSafeIsLow ==
    (Returned /\ PassedChecks /\ TargetKnownSafe)
        => (v_call.result.risk_level = "LOW" /\ v_call.result.is_valid)

\* C1 witness: a WFLR deposit the sender cannot afford, two warnings, AI score 5.
C1_Witness ==
    /\ Returned /\ PassedChecks /\ TargetKnownSafe
    /\ v_call.tx.to = Addr("wflr", "checksum")
    /\ v_call.ai.kind = "json" /\ Get(v_call.ai.json, "security_score", 50) = 5
    /\ ~Get(v_call.result.simulation_result, "can_afford", TRUE)
    /\ Len(v_call.result.warnings) = 3
    /\ v_call.result.risk_level = "LOW"

RequiredFields == {"to", "value", "gas"}

BalanceInsufficient ==
    /\ PassedChecks
    /\ ~v_call.rpc.raises
    /\ v_call.rpc.balance <
         Get(v_call.tx, "value", 0)
         + Get(v_call.tx, "gasPrice", v_call.rpc.gas_price)
           * Get(v_call.tx, "gas", DefaultGasLimit)

\* C3 as stated: with an insufficient balance the level is HIGH or CRITICAL
\* for every target address.
C3_Original ==
    (Returned /\ BalanceInsufficient)
        => v_call.result.risk_level \in {"HIGH", "CRITICAL"}

\* C3 amended: with an insufficient balance the level is HIGH or CRITICAL
\* unless the lower-cased target is in the known-safe set the call leaves
\* behind, and then it is LOW.
C3_InsufficientAtLeastHigh ==
    (Returned /\ BalanceInsufficient)
        => IF Lower(v_call.tx.to) \in known_safe_contracts
           THEN v_call.result.risk_level = "LOW"
           ELSE v_call.result.risk_level \in {"HIGH", "CRITICAL"}

\* C3 witness: an unaffordable transfer to a plain address, AI score 100, ends HIGH.
C3_Witness ==
    /\ Returned /\ BalanceInsufficient
    /\ v_call.tx.to = Addr("eoa", "checksum")
    /\ v_call.rpc.balance = 0 /\ Get(v_call.tx, "value", 0) = 0
    /\ v_call.ai.kind = "json" /\ Get(v_call.ai.json, "security_score", 50) = 100
    /\ v_call.result.risk_level = "HIGH"

(***************************************************************************)
(* Claims about TransactionRisk (SpecRisk) and add_finding (SpecReport).   *)
(***************************************************************************)
Compared == cmp.kind # "none"

OrderMax(a, b) == IF Position(b) > Position(a) THEN b ELSE a

\* C8: the comparison operators of TransactionRisk form the total order
\* SAFE < LOW < MEDIUM < HIGH < CRITICAL: exactly one of <, ==, > holds, it is
\* the one the order gives, <= and >= agree with it, < is transitive, and
\* max returns the operand that is higher in the order.
C8_RiskTotalOrder ==
    Compared =>
        /\ cmp.lt = (Position(cmp.a) < Position(cmp.b))
        /\ cmp.gt = (Position(cmp.a) > Position(cmp.b))
        /\ cmp.eq = (cmp.a = cmp.b)
        /\ Cardinality({x \in {"lt", "eq", "gt"} : cmp[x]}) = 1
        /\ cmp.le = (Position(cmp.a) <= Position(cmp.b))
        /\ cmp.ge = (Position(cmp.a) >= Position(cmp.b))
        /\ (cmp.lt /\ cmp.lt_bc) => cmp.lt_ac
        /\ cmp.max = OrderMax(cmp.a, cmp.b)
        /\ cmp.max3 = OrderMax(OrderMax(cmp.a, cmp.b), cmp.c)

\* C8 witness: max(MEDIUM, HIGH) was evaluated and is HIGH, HIGH < CRITICAL.
C8_Witness ==
    /\ Compared
    /\ cmp.a = "MEDIUM" /\ cmp.b = "HIGH" /\ cmp.c = "CRITICAL"
    /\ cmp.lt /\ cmp.max = "HIGH" /\ cmp.max3 = "CRITICAL"

\* The step appends one finding to an existing report.
FindingAdded ==
    /\ report.kind = "report" /\ report'.kind = "report"
    /\ Len(report'.findings) = Len(report.findings) + 1

\* C9: add_finding appends the finding and sets the report's level to the
\* maximum, in the order SAFE < LOW < MEDIUM < HIGH < CRITICAL, of the current
\* level and the finding's level, so the level is never lowered.
C9_AddFindingTakesMax ==
    [][FindingAdded =>
         LET f == report'.findings[Len(report'.findings)]
         IN  /\ report'.findings = Append(report.findings, f)
             /\ report'.risk_level = OrderMax(report.risk_level, f.level)
             /\ Position(report'.risk_level) >= Position(report.risk_level)]_vars

(***************************************************************************)
(* Claims about the transaction builder (SpecBuilder).                     *)
(***************************************************************************)
Built(op) == b_call.kind = "returned" /\ b_call.op = op

\* C6: with an account, create_send_flr_tx returns a transaction whose value
\* is amount * 10^18 wei, whose to is the checksummed recipient and whose
\* from is the provider's address (a malformed recipient or a negative amount
\* raises instead); without an account it raises and builds nothing.
C6_SendFlrTx ==
    Built("send") =>
        IF IsNone(b_call.account)
        THEN b_call.result.kind = "error"
        ELSE /\ (b_call.result.kind = "tx")
                    = (IsAddress(b_call.to) /\ b_call.amount >= 0)
             /\ b_call.result.kind = "tx" =>
                    /\ 10 * b_call.result.tx.value = b_call.amount * WeiPerEther
                    /\ b_call.result.tx.to.id = b_call.to.id
                    /\ b_call.result.tx.to.cs =
                           (IF b_call.to.id \in DigitOnly THEN "lower" ELSE "checksum")
                    /\ b_call.result.tx.from = b_call.account
                    /\ b_call.result.tx.nonce = b_call.nonce

\* C6 witness: 1.5 tokens to a lower-case address give 150 units (1.5 * 10^18 wei).
C6_Witness ==
    /\ Built("send") /\ ~IsNone(b_call.account)
    /\ b_call.amount = 15 /\ b_call.to = Addr("eoa", "lower")
    /\ b_call.result.kind = "tx"
    /\ b_call.result.tx.value = 150
    /\ b_call.result.tx.to = Addr("eoa", "checksum")

\* A swap call with valid arguments on the default V3 path.
ValidSwapArgs ==
    /\ Built("swap")
    /\ Upper(b_call.from_token) \in DOMAIN TokenAddresses
    /\ Upper(b_call.to_token) \in DOMAIN TokenAddresses
    /\ Upper(b_call.from_token) # Upper(b_call.to_token)
    /\ b_call.amount > 0
    /\ ~IsNone(b_call.sender) /\ IsAddress(b_call.sender)

\* C4: a native-token source on the default V3 path with wrapping gives
\* exactly wrap (to WFLR, value = amount in wei), approve (to WFLR, value 0),
\* swap (to the V3 router, value 0), with nonces n, n+1, n+2.
C4_NativeSwapThreeTxs ==
    (ValidSwapArgs /\ Upper(b_call.from_token) = "FLR"
         /\ b_call.use_v3 /\ b_call.include_flr_wrap)
        => /\ b_call.result.kind = "list"
           /\ Len(b_call.result.txs) = 3
           /\ LET wrap == b_call.result.txs[1]
                  approve == b_call.result.txs[2]
                  swap == b_call.result.txs[3]
              IN  /\ wrap.to.id = "wflr" /\ wrap.data.fn = "deposit"
                  /\ 10 * wrap.value = b_call.amount * WeiPerEther
                  /\ approve.to.id = "wflr" /\ approve.data.fn = "approve"
                  /\ approve.value = 0
                  /\ swap.to.id = "v3router" /\ swap.data.fn = "exactInputSingle"
                  /\ swap.value = 0
                  /\ wrap.nonce = b_call.nonce
                  /\ approve.nonce = b_call.nonce + 1
                  /\ swap.nonce = b_call.nonce + 2

\* C4 witness: FLR -> USDC for 1.5 tokens at on-chain count 1.
C4_Witness ==
    /\ ValidSwapArgs /\ b_call.from_token = "flr" /\ b_call.to_token = "USDC"
    /\ b_call.use_v3 /\ b_call.include_flr_wrap
    /\ b_call.amount = 15 /\ b_call.nonce = 1
    /\ Len(b_call.result.txs) = 3
    /\ b_call.result.txs[3].nonce = 3

\* C5: a non-native source whose approval for the router already exists
\* gives exactly one transaction, the swap, and no approval.
C5_ApprovedSourceOneTx ==
    (ValidSwapArgs /\ Upper(b_call.from_token) # "FLR"
         /\ b_call.allowance >= ToWei(b_call.amount))
        => /\ b_call.result.kind = "list"
           /\ Len(b_call.result.txs) = 1
           /\ b_call.result.txs[1].data.fn # "approve"

(***************************************************************************)
(* Claims about the contract analyzer (SpecAnalyzer).                      *)
(***************************************************************************)
Analyzed == a_call.kind = "returned" /\ a_call.result.kind = "report"
AnalyzedKey == ToChecksum(a_call.contract_address)
FromCache == ~a_call.force_refresh /\ AnalyzedKey \in DOMAIN a_call.cache_before
NotAContractReport ==
    /\ a_call.result.risk_level = "CRITICAL"
    /\ Len(a_call.result.findings) = 1
    /\ a_call.result.findings[1].title = "Not a Contract"
    /\ a_call.calls \cap {"explorer_verification", "explorer_source", "bytecode_scan",
                          "source_scan", "ai"} = {}

\* C7 as stated: every report returned for an address without bytecode is the
\* CRITICAL 'Not a Contract' report, made without explorer, scan or AI call.
C7_Original == (Analyzed /\ a_call.code.len = 0) => NotAContractReport

\* C7: a report returned for an address without bytecode by a call that is
\* not answered from the cache is the CRITICAL report with the single
\* 'Not a Contract' finding, made with no explorer, scan or AI call.
C7_NoCodeIsCritical ==
    (Analyzed /\ a_call.code.len = 0 /\ ~FromCache)
        => NotAContractReport /\ a_call.calls = {"chain_id", "get_code"}

\* C7 witness: a forced re-analysis of an address whose code is gone replaces
\* a milder stored report by the CRITICAL one.
C7_Witness ==
    /\ Analyzed /\ a_call.code.len = 0 /\ a_call.force_refresh
    /\ AnalyzedKey \in DOMAIN a_call.cache_before
    /\ a_call.cache_before[AnalyzedKey].risk_level # "CRITICAL"
    /\ NotAContractReport

\* C10: a call without force_refresh for an address with a stored report (in
\* any spelling) returns that report with no outside call and leaves the cache
\* alone; a call with force_refresh that returns redoes the analysis on the
\* current code and stores its report; every report returned is the one stored;
\* and a stored report is never removed, and replaced only by a force_refresh
\* call for its address.
C10_CacheUntilForced ==
    /\ [](a_call.kind = "returned" /\ IsAddress(a_call.contract_address) =>
            /\ FromCache =>
                  /\ a_call.result = a_call.cache_before[AnalyzedKey]
                  /\ a_call.calls = {}
                  /\ contract_cache = a_call.cache_before
            /\ (Analyzed /\ a_call.force_refresh) =>
                  /\ "get_code" \in a_call.calls
                  /\ (a_call.result.findings # << >>
                        /\ a_call.result.findings[1].title = "Not a Contract")
                      = (a_call.code.len <= 2)
            /\ Analyzed => /\ AnalyzedKey \in DOMAIN contract_cache
                           /\ contract_cache[AnalyzedKey] = a_call.result)
    /\ [][\A key \in DOMAIN contract_cache :
            /\ key \in DOMAIN contract_cache'
            /\ contract_cache'[key] # contract_cache[key] =>
                  /\ a_call'.kind = "returned"
                  /\ a_call'.force_refresh
                  /\ ToChecksum(a_call'.contract_address) = key]_vars

\* C10 witness: a lower-case spelling, no force_refresh, a stored MEDIUM-or-other
\* report from before the code was removed, returned with no outside call.
C10_Witness ==
    /\ a_call.kind = "returned" /\ FromCache
    /\ a_call.contract_address = Addr("token", "lower")
    /\ a_call.code.len = 0
    /\ a_call.result = a_call.cache_before[AnalyzedKey]
    /\ a_call.result.risk_level # "CRITICAL"
    /\ a_call.calls = {}

(***************************************************************************)
(* The merge of the validator's stages                                     *)
(***************************************************************************)

\* A direct call of _calculate_risk_level returned, for a target outside the
\* allow-list.
Merged == v_call.kind = "merged" /\ ~v_call.allow_listed

AiErrorFallback ==
    Get(v_call.result.ai_analysis, "risk_assessment", "") = "AI analysis encountered an error:"

\* The score the merge reads from the result's analysis.
ResultScore == Get(v_call.result.ai_analysis, "security_score", DefaultScore)

\* The level of the result respects the buckets of the AI score.
RespectsBuckets ==
    /\ ResultScore < 20 => v_call.result.risk_level = "CRITICAL" /\ ~v_call.result.is_valid
    /\ ResultScore < 40 => RiskGe(v_call.result.risk_level, "HIGH")
    /\ ResultScore < 60 => RiskGe(v_call.result.risk_level, "MEDIUM")
    /\ ResultScore < 80 => RiskGe(v_call.result.risk_level, "LOW")
    /\ v_call.result.risk_level = "SAFE" =>
          /\ ResultScore >= 80
          /\ MergeStages(v_call.result.simulation_result, v_call.result.ai_analysis, v_call.result.warnings, FALSE).afterSimulation = "LOW"

\* The known-safe set as the later stages of the call see it: structural
\* validation may have added the target to it (line 248).
KnownSafeAfterBasic ==
    PerformBasicValidation(v_call.tx, v_call.sender, v_call.known_safe_before).known_safe

\* The merge's allow-list test (lines 502-506) holds for the call's target.
AllowListedAtMerge ==
    Lower(v_call.tx.to) \in KnownSafeAfterBasic \cup {Addr("wflr41", "lower"), Addr("v3router", "lower")}

\* The call reached the merge with a target outside the allow-list.
ReachedMerge == Returned /\ PassedChecks /\ ~AllowListedAtMerge

\* C17 as stated: every transaction that reaches the merge with a target
\* outside the allow-list gets a level that respects the AI score buckets.
C17_Original == ReachedMerge => RespectsBuckets

\* C17: the same, except when the analysis is the error fallback of
\* _perform_ai_analysis (the AI call raised): its score of 50 is not used and
\* the level is the one the simulation stage reached.
C17_ScoreBuckets ==
    ReachedMerge =>
        IF AiErrorFallback
        THEN v_call.result.risk_level = MergeStages(v_call.result.simulation_result, v_call.result.ai_analysis, v_call.result.warnings, FALSE).afterSimulation
        ELSE RespectsBuckets

C17_Witness ==
    /\ ReachedMerge
    /\ ~AiErrorFallback
    /\ ResultScore = 39
    /\ v_call.result.risk_level = "HIGH"
    /\ Len(v_call.result.warnings) = 0
    /\ v_call.result.simulation_result.simulation_successful
    /\ v_call.result.simulation_result.can_afford

\* The target has bytecode on the chain and is not verified.
UnverifiedContractTarget ==
    /\ "to" \in DOMAIN v_call.tx
    /\ v_call.tx.to # EmptyStr
    /\ ~v_call.rpc.raises
    /\ v_call.rpc.code_len > 0
    /\ v_call.tx.to \notin KnownSafeAfterBasic

\* C18: validate_transaction never returns SAFE for a transaction whose target
\* has non-empty bytecode and is not verified; the result is LOW or higher.
C18_UnverifiedNeverSafe ==
    (Returned /\ UnverifiedContractTarget) => RiskGe(v_call.result.risk_level, "LOW")

C18_Witness ==
    /\ ReachedMerge
    /\ UnverifiedContractTarget
    /\ ResultScore = 100
    /\ ~AiErrorFallback
    /\ v_call.result.simulation_result.can_afford
    /\ Len(v_call.result.warnings) = 0
    /\ v_call.result.risk_level = "LOW"

\* The call's transaction passed structural validation and its recipient, as
\* spelled, is in the scam set.
ScamRecipient ==
    /\ PerformBasicValidation(v_call.tx, v_call.sender, v_call.known_safe_before).is_valid
    /\ v_call.tx.to \in scam_addresses

\* C19: a structurally valid transaction to a recipient in the scam set is
\* rejected with HIGH and nothing more is done: no node lookup, no AI call, no
\* simulation_result and no ai_analysis in the result.
C19_ScamRejectedEarly ==
    (v_call.kind \in {"returned", "raised"} /\ ScamRecipient) =>
        /\ v_call.kind = "returned"
        /\ ~v_call.result.is_valid
        /\ v_call.result.risk_level = "HIGH"
        /\ v_call.calls = << >>
        /\ IsNone(v_call.result.simulation_result)
        /\ IsNone(v_call.result.ai_analysis)

C19_Witness ==
    /\ Returned
    /\ ScamRecipient
    /\ v_call.tx.to = Addr("eoa", "checksum")
    /\ v_call.result.risk_level = "HIGH"

(***************************************************************************)
(* create_swap_tx: the arguments it refuses                                *)
(***************************************************************************)

\* The swap call's arguments break a precondition: a symbol outside the token
\* table, a non-positive amount, or the same symbol twice (in any case).
BadSwapArgs ==
    \/ Upper(b_call.from_token) \notin DOMAIN TokenAddresses
    \/ Upper(b_call.to_token) \notin DOMAIN TokenAddresses
    \/ b_call.amount <= 0
    \/ Upper(b_call.from_token) = Upper(b_call.to_token)

\* C14: create_swap_tx fails with a value error, returning no transaction,
\* whenever a symbol is not in the token table, the amount is not positive or
\* the two symbols are the same up to case; in every other case with a valid
\* sender it returns a non-empty list.
C14_SwapArgsChecked ==
    Built("swap") =>
        /\ BadSwapArgs => b_call.result = Err("ValueError")
        /\ (~BadSwapArgs /\ ~IsNone(b_call.sender) /\ IsAddress(b_call.sender)) =>
              /\ b_call.result.kind = "list"
              /\ Len(b_call.result.txs) > 0

C14_Witness ==
    /\ Built("swap")
    /\ b_call.from_token = "flr"
    /\ b_call.to_token = "FLR"
    /\ b_call.amount > 0
    /\ ~IsNone(b_call.sender) /\ IsAddress(b_call.sender)
    /\ b_call.result = Err("ValueError")

(***************************************************************************)
(* The queue: every entry goes to the signer at most once                  *)
(***************************************************************************)

\* A call of send_tx_in_queue ended, by return or by exception.
SendEnded == q_call.kind = "returned" /\ q_call.op = "send"

\* No entry occurs twice in a sequence of entries.
NoRepeat(entries) ==
    \A i \in 1..Len(entries), j \in 1..Len(entries) : entries[i] = entries[j] => i = j

Answered == c_call.kind = "returned"

\* C12: the chat endpoint gives a queued transaction to the signer only while
\* handling a message whose lower-cased text is exactly "confirm" or
\* "confirmed", with a non-empty queue; no '/' command, no routed intent and no
\* confirm on an empty queue broadcasts anything.
C12_BroadcastOnlyOnConfirm ==
    /\ (Answered /\ c_call.signed # << >>) =>
          /\ ~StartsWithSlash(c_call.message)
          /\ LowerText(c_call.message) \in {"confirm", "confirmed"}
          /\ c_call.queue_before # << >>
    /\ (Answered /\ c_call.branch # "confirm") =>
          /\ c_call.signed = << >>
          /\ c_call.validations = << >>

C12_Witness ==
    /\ Answered
    /\ c_call.message = "CONFIRM"
    /\ Len(c_call.signed) = 1
    /\ c_call.outcome = "response"
    /\ c_call.response = "tx_confirmation"

\* C13: in the confirm flow a queued transaction is given to the signer only
\* if its validation completed with is_valid = true.
C13_ValidGatesBroadcast ==
    Answered =>
        \A i \in 1..Len(c_call.signed) :
            /\ c_call.validations[i].completed
            /\ c_call.validations[i].result_is_valid

\* C15: every failure while handling a chat message ends with a response
\* message; no request ends with an error outcome.
C15_AlwaysResponse == Answered => c_call.outcome = "response"

\* C20: a transaction whose nonce is below the sender's on-chain transaction
\* count does not pass validate_transaction unflagged (it is rejected or gets a
\* warning), and one whose `from` is not the sender is rejected.
C20_NonceAndFromChecked ==
    Answered =>
        \A i \in 1..Len(c_call.validations) :
            LET v == c_call.validations[i]
            IN  /\ v.tx.nonce < v.count => (~v.completed \/ ~v.result_is_valid \/ v.warnings # << >>)
                /\ v.tx.from # v.sender => (v.completed /\ ~v.result_is_valid)

(***************************************************************************)
(* Further claims about validate_transaction (SpecValidator).              *)
(***************************************************************************)
\* A call of validate_transaction ended, with a result or with an exception.
ValidateEnded == v_call.kind \in {"returned", "raised"}

\* The AI call raised, or its reply holds no JSON object or an unparseable one.
AiReplyUnusable == v_call.ai.kind \in {"raise", "nojson", "badjson"}

\* C21: validate_transaction always returns a result, whatever the node and
\* the AI provider do: an unusable AI reply degrades to security_score 50, a
\* failed lookup gives a simulation result with simulation_successful false
\* and the error, and then the level of a target outside the allow-list is at
\* least HIGH.
C21_NeverRaises ==
    ValidateEnded =>
        /\ Returned
        /\ (PassedChecks /\ AiReplyUnusable)
              => v_call.result.ai_analysis.security_score = DefaultScore
        /\ (PassedChecks /\ v_call.rpc.raises)
              => /\ ~v_call.result.simulation_result.simulation_successful
                 /\ "error" \in DOMAIN v_call.result.simulation_result
                 /\ ~AllowListedAtMerge => RiskGe(v_call.result.risk_level, "HIGH")

\* The level the merge gives the call's result when the allow-list override
\* is not applied.
LevelWithoutOverride ==
    MergeStages(v_call.result.simulation_result, v_call.result.ai_analysis, v_call.result.warnings, FALSE).final

\* C25: the known-safe set is the one built by the constructor, after any
\* sequence of validate_transaction calls, and the result for a target outside
\* that set is the level of the merge, never the forced LOW of the override.
C25_KnownSafeFixed ==
    /\ known_safe_contracts = InitialKnownSafe
    /\ (Returned /\ PassedChecks /\ Lower(v_call.tx.to) \notin InitialKnownSafe)
          => v_call.result.risk_level = LevelWithoutOverride

\* The warnings that do not reject a transaction.
SoftWarnings ==
    {"Unusually high gas limit", "Unusually large data field", "Unusually high transaction value"}

\* The simulation or the AI score of the call's result asks for HIGH or more.
SimulationOrScoreHigh ==
    \/ ~Get(v_call.result.simulation_result, "simulation_successful", FALSE)
    \/ ~Get(v_call.result.simulation_result, "can_afford", TRUE)
    \/ (~AiErrorFallback /\ ResultScore < 40)

\* C29: the warnings that reach the merge are at most the three soft ones, so
\* for a target outside the allow-list the warning stage gives MEDIUM at most
\* and a HIGH or CRITICAL result comes from the simulation or the AI score.
C29_WarningsAtMostMedium ==
    (Returned /\ PassedChecks) =>
        /\ Len(v_call.result.warnings) <= 3
        /\ \A i \in 1..Len(v_call.result.warnings) : v_call.result.warnings[i] \in SoftWarnings
        /\ ~AllowListedAtMerge =>
              /\ RiskLe(MergeStages(v_call.result.simulation_result, v_call.result.ai_analysis, v_call.result.warnings, FALSE).afterWarnings, "MEDIUM")
              /\ RiskGe(v_call.result.risk_level, "HIGH") => SimulationOrScoreHigh

\* C29 witness: all three soft warnings, an affordable transfer, score 60: MEDIUM.
C29_Witness ==
    /\ ReachedMerge
    /\ Len(v_call.result.warnings) = 3
    /\ v_call.result.simulation_result.simulation_successful
    /\ v_call.result.simulation_result.can_afford
    /\ ~AiErrorFallback
    /\ ResultScore = 60
    /\ v_call.result.risk_level = "MEDIUM"

(***************************************************************************)
(* Further claims about the transactions built (SpecBuilder).              *)
(***************************************************************************)
\* The swap step of the list create_swap_tx returned: its last transaction.
SwapStep == b_call.result.txs[Len(b_call.result.txs)]

\* int(amount_in * (1 - slippage)) for the call's amount and the default
\* slippage of 0.5%, in thousandths of the unit amounts in wei are counted in.
ExpectedMinOut == ((b_call.amount * WeiPerEther) \div 10) * (1000 - 5)

\* C24: the swap transaction built by create_swap_tx carries the minimum
\* output int(amount_in * (1 - slippage)), as amountOutMinimum on the V3 path
\* and as amountOutMin on the V2 path.
C24_MinOutFromSlippage ==
    (ValidSwapArgs /\ b_call.result.kind = "list") =>
        IF b_call.use_v3
        THEN SwapStep.data.amountOutMinimum = ExpectedMinOut
        ELSE SwapStep.data.amountOutMin = ExpectedMinOut

(***************************************************************************)
(* Further claims about the chat endpoint (SpecChat).                      *)
(***************************************************************************)
\* The request was routed to the intent given and reached the extraction:
\* an account exists and the AI answered.
Extracted(route) ==
    /\ Answered
    /\ c_call.branch = "route"
    /\ c_call.env.route = route
    /\ ~IsNone(c_call.account)
    /\ c_call.env.ai_ok

\* A swap request whose extraction names native FLR as the source.
FlrSwapRequest ==
    /\ Extracted("SWAP_TOKEN")
    /\ "from_token" \in DOMAIN c_call.env.extraction.json
    /\ Upper(c_call.env.extraction.json.from_token) = "FLR"

\* The contract functions the queued transactions call, in queue order.
QueuedCalls == [i \in 1..Len(tx_queue) |-> tx_queue[i].tx.data.fn]

SendComplete ==
    /\ c_call.env.extraction.kind = "json"
    /\ "to_address" \in DOMAIN c_call.env.extraction.json
    /\ "amount" \in DOMAIN c_call.env.extraction.json
    /\ c_call.env.extraction.json.amount # 0

SwapComplete ==
    /\ c_call.env.extraction.kind = "json"
    /\ "from_token" \in DOMAIN c_call.env.extraction.json
    /\ "to_token" \in DOMAIN c_call.env.extraction.json
    /\ "amount" \in DOMAIN c_call.env.extraction.json
    /\ c_call.env.extraction.json.amount # 0

LiquidityComplete ==
    /\ c_call.env.extraction.kind = "json"
    /\ {"token_a", "token_b", "amount_a", "amount_b"} \subseteq DOMAIN c_call.env.extraction.json
    /\ c_call.env.extraction.json.amount_a # 0
    /\ c_call.env.extraction.json.amount_b # 0

\* The reply's text names both tokens of a swap and they differ as written:
\* the fields of the JSON, or what the regular expressions of lines 456-457
\* find in a text that does not parse.
SwapTokensGiven ==
    /\ "from_token" \in DOMAIN c_call.env.extraction.json
    /\ "to_token" \in DOMAIN c_call.env.extraction.json
    /\ c_call.env.extraction.json.from_token # c_call.env.extraction.json.to_token

\* The request put transactions of its own into the queue.
QueuedSome == tx_queue # c_call.queue_before /\ tx_queue # << >>

\* The request was answered with the follow-up prompt and left the queue alone.
FollowUpOnly ==
    /\ c_call.outcome = "response"
    /\ c_call.response = "follow_up_token_send"
    /\ tx_queue = c_call.queue_before

SwapBuildFailed ==
    /\ Extracted("SWAP_TOKEN")
    /\ c_call.outcome = "response"
    /\ c_call.response = "Failed to create swap transaction:"

\* C28: a swap request whose construction fails leaves the pending queue
\* exactly as it was before the request.
C28_FailedSwapKeepsQueue == SwapBuildFailed => tx_queue = c_call.queue_before

\* The descriptions of the entries that are not the first step of their flow.
LaterStepMsgs == {"Approve WFLR for swap", "Swap WFLR", "Swap"}

\* The i-th entry given to the signer in this request was mined: the sender's
\* transaction count had grown by one when the next entry was validated.
MinedBeforeNext(i) == c_call.validations[i + 1].count = c_call.validations[i].count + 1

\* The steps of a flow carry consecutive nonces, so the steps before the i-th
\* signed entry were all mined if its nonce is not above the sender's
\* transaction count at the time it is signed.
EarlierStepsMined(i) == c_call.signed[i].tx.nonce <= c_call.validations[i].count

\* C26: a later step of a swap flow is given to the signer only after every
\* earlier step of the flow was broadcast successfully: within one confirm
\* nothing follows a failed broadcast, and no later confirm sends the
\* remaining steps.
C26_LaterStepAfterEarlier ==
    Answered =>
        /\ \A i \in 1..(Len(c_call.signed) - 1) : MinedBeforeNext(i)
        /\ \A i \in 1..Len(c_call.signed) :
              c_call.signed[i].msg \in LaterStepMsgs => EarlierStepsMined(i)

\* C27: at every moment the entries of the pending queue carry nonces that
\* increase strictly in queue order, hence pairwise distinct ones.
C27_QueueNoncesIncrease ==
    \A i \in 1..Len(tx_queue) : \A j \in 1..Len(tx_queue) :
        i < j => tx_queue[i].tx.nonce < tx_queue[j].tx.nonce

\* A confirm that ended because validation blocked the head of the queue.
ConfirmBlocked ==
    /\ Answered
    /\ c_call.branch = "confirm"
    /\ c_call.validations # << >>
    /\ ~c_call.validations[Len(c_call.validations)].is_valid

\* What a blocked confirm leaves: the entries broadcast before the blocked one
\* are gone, the blocked entry and all behind it are still queued, in order.
BlockedLeavesRest ==
    ConfirmBlocked =>
        /\ c_call.outcome = "response"
        /\ c_call.response = "CRITICAL RISK: This transaction was blocked for your safety."
        /\ Len(c_call.validations) = Len(c_call.signed) + 1
        /\ c_call.signed = SubSeq(c_call.queue_before, 1, Len(c_call.signed))
        /\ tx_queue = SubSeq(c_call.queue_before, Len(c_call.signed) + 1, Len(c_call.queue_before))
        /\ tx_queue # << >>
        /\ tx_queue[1].tx = c_call.validations[Len(c_call.validations)].tx

\* What a request does to the head of a non-empty queue: a confirm validates
\* it before anything else; apart from a reset and a swap request, every
\* other request leaves it at the head.
HeadValidatedFirst ==
    (c_call.kind = "none" /\ c_call'.kind = "returned" /\ tx_queue # << >>) =>
        IF c_call'.branch = "confirm"
        THEN c_call'.validations # << >> /\ c_call'.validations[1].tx = tx_queue[1].tx
        ELSE IF c_call'.message = "/reset" \/ (c_call'.branch = "route" /\ c_call'.env.route = "SWAP_TOKEN")
        THEN TRUE
        ELSE tx_queue' # << >> /\ tx_queue'[1] = tx_queue[1]

\* C30: a confirm that validation blocks leaves the blocked entry at the head
\* with everything behind it, and what was broadcast before it removed; every
\* later confirm validates that head first, until a reset or a swap request
\* clears the queue.
C30_BlockedHeadStays == []BlockedLeavesRest /\ [][HeadValidatedFirst]_vars

\* C30 witness: a confirm that broadcast one entry and was blocked at the next.
C30_Witness ==
    /\ ConfirmBlocked
    /\ Len(c_call.signed) >= 1
    /\ Len(tx_queue) >= 1
    /\ tx_queue[1] = c_call.queue_before[Len(c_call.signed) + 1]

====
